---- MODULE Spec2Model ----
(***************************************************************************)
(* Model of afero-gdrive: the GDriver path layer (gdrive.go), the          *)
(* APIWrapper with its lookup cache (apiwrapper, cache/cache.go) and the   *)
(* File handle with its pipe-based upload bridge (file.go).                *)
(*                                                                         *)
(* Names, identifiers and paths are sequences of one-character strings so  *)
(* that splitting, joining, sanitizing and cache-key prefixes are computed *)
(* as the code computes them.                                              *)
(***************************************************************************)
EXTENDS Integers, Sequences, FiniteSets, TLC

VARIABLES
    files,           \* remote store: entry id -> [name, parent, isDir, trashed, content]
    nbCreated,       \* number of ids the remote store has handed out
    cache,           \* APIWrapper.cache.items: cache key -> lookup result
    rootNode,        \* GDriver.rootNode (the FileInfo's drive id)
    TrashForDelete,  \* GDriver.TrashForDelete
    UseCache,        \* APIWrapper.UseCache
    nbCalls,         \* number of driver calls made so far (history)
    last,            \* the last driver call and its error (history)
    WriteBufferType, \* GDriver.WriteBufferType
    WriteBufferSize, \* GDriver.WriteBufferSize
    File,            \* the handle the caller holds: its streams and its offset
    pipe,            \* the io.Pipe between the handle and the upload task
    upload,          \* the upload task of getFileWriter and its completion value
    body,            \* the response body of the download of getFileReader
    caller,          \* where the caller of the handle is: idle or inside a call
    ret,             \* what the last call on the handle returned (history)
    hist,            \* what the caller wrote and read so far (history)
    mutex,           \* Cache.mutex: the goroutine holding it for writing, those reading
    gor,             \* the goroutines calling one Cache: position, call, result
    ref,             \* the plain map the Cache is compared with (history)
    aw,              \* one buffering decorator of iohelper: its fields
    awCaller,        \* the goroutine calling Write and Close on the decorator
    awRun,           \* the goroutine of the decorator's run()
    dest,            \* the destination writer: bytes received, closed
    payloads,        \* the payloads of the Write calls, in call order (history)
    wrap             \* two concurrent callers of the APIWrapper: a lookup, a create

fsVars == <<files, nbCreated, cache, rootNode, TrashForDelete, UseCache, nbCalls, last>>

cfgVars == <<WriteBufferType, WriteBufferSize>>

streamVars == <<File, pipe, upload, body, caller, ret, hist>>

\* the state of the concurrent users of the cache package
cacheVars == <<mutex, gor, ref>>

\* the state of a decorator of the iohelper package used on its own
bufVars == <<aw, awCaller, awRun, dest, payloads>>

\* the state of two concurrent callers of the APIWrapper
wrapVars == <<wrap>>

libVars == <<cacheVars, bufVars, wrapVars>>

vars == <<fsVars, cfgVars, streamVars, libVars>>

----------------------------------------------------------------------------
(* Bounds *)

\* how many entries the remote store may create in one behaviour
MaxFiles == 3

\* how many driver calls one behaviour makes
MaxCalls == 3

\* characters a path segment is made of
NameChars == {"a", "b"}

\* how many bytes the caller writes through one handle
MaxLen == 2

\* how many Write calls the caller makes on one handle
MaxWrites == 2

\* how many times the caller opens the file of the stream specification
MaxOpens == 3

\* the values of a byte
Bytes == {"x", "y"}

----------------------------------------------------------------------------
(* Remote identifiers *)

\* id of the drive's absolute root, Files.Get("root")
AbsRootID == <<"0">>

\* ids the remote store hands out, in order; the second one has the first
\* one followed by a dash as a prefix (drive ids may contain dashes)
IdPool == << <<"1">>, <<"1", "-", "x">>, <<"2">>, <<"3">>, <<"4">> >>

NoID == <<>>

----------------------------------------------------------------------------
(* Names and paths: fileinfo.go, strings.FieldsFunc, path.Join *)

isPathSeperator(r) == r \in {"/", "\\"}

sanitizeName(s) ==
    [i \in DOMAIN s |-> IF isPathSeperator(s[i]) \/ s[i] = "'" THEN "-" ELSE s[i]]

RECURSIVE FieldsFrom(_, _, _)
FieldsFrom(p, i, cur) ==
    IF i > Len(p)
    THEN (IF cur = <<>> THEN <<>> ELSE <<cur>>)
    ELSE IF isPathSeperator(p[i])
         THEN (IF cur = <<>> THEN FieldsFrom(p, i + 1, <<>>)
                             ELSE <<cur>> \o FieldsFrom(p, i + 1, <<>>))
         ELSE FieldsFrom(p, i + 1, Append(cur, p[i]))

\* strings.FieldsFunc(path, isPathSeperator)
FieldsFunc(p) == FieldsFrom(p, 1, <<>>)

RECURSIVE pathJoin(_)
pathJoin(parts) ==
    IF parts = <<>> THEN <<>>
    ELSE IF Len(parts) = 1 THEN parts[1]
    ELSE parts[1] \o <<"/">> \o pathJoin(Tail(parts))

\* the paths handed to the driver
PathInputs ==
    {<<>>, <<"/">>}
    \cup {<<x>> : x \in NameChars}
    \cup {<<x, "/", y>> : x \in NameChars, y \in NameChars}

----------------------------------------------------------------------------
(* Requested field sets *)

\* googleapi.CombineFields(listFields)
listFields == "files(createdTime,id,mimeType,modifiedTime,name,size)"
\* what the wrapper asks for when no field is requested
defaultFields == "files(id,mimeType,parents)"
\* what Rename asks for
renameFields == "files(id,parents)"
noFields == ""

HasMimeType(qf) == qf \in {listFields, defaultFields}
HasParents(qf) == qf \in {defaultFields, renameFields}

----------------------------------------------------------------------------
(* cache/cache.go *)

HasPrefix(k, p) == Len(p) <= Len(k) /\ SubSeq(k, 1, Len(p)) = p

CacheSet(c, key, value) ==
    [k \in DOMAIN c \cup {key} |-> IF k = key THEN value ELSE c[k]]

\* a cleanup that removes the key equal to the prefix only
CleanupByPrefixExact(c, prefix) ==
    [k \in {x \in DOMAIN c : x # prefix} |-> c[k]]

CleanupByPrefix(c, prefix) ==
    [k \in {x \in DOMAIN c : ~HasPrefix(x, prefix)} |-> c[k]]

CleanupEverything == <<>>

EmptyCache == <<>>

----------------------------------------------------------------------------
(* The remote store (drive.Service), as the driver uses it *)

\* what the store returns for one entry, restricted to the requested fields
Snapshot(F, i, qf) ==
    [id |-> i,
     isDir |-> HasMimeType(qf) /\ F[i].isDir,
     parents |-> IF HasParents(qf) THEN <<F[i].parent>> ELSE <<>>]

\* Files.List with "'folderID' in parents and name='...' and trashed = false"
FilesList(F, folderID, name, qf) ==
    {Snapshot(F, i, qf) :
        i \in {j \in DOMAIN F : /\ F[j].parent = folderID
                                /\ F[j].name = name
                                /\ ~F[j].trashed}}

RECURSIVE Descendants(_, _)
Descendants(F, S) ==
    LET more == {j \in DOMAIN F : F[j].parent \in S} \ S
    IN IF more = {} THEN S ELSE Descendants(F, S \cup more)

\* Files.Create: refused when the parent is gone or trashed
CanCreateUnder(F, folderID) == folderID \in DOMAIN F /\ ~F[folderID].trashed

FilesCreate(F, newID, folderID, name, dir) ==
    [i \in DOMAIN F \cup {newID} |->
        IF i = newID
        THEN [name |-> name, parent |-> folderID, isDir |-> dir,
              trashed |-> FALSE, content |-> <<>>]
        ELSE F[i]]

\* Files.Delete removes the entry and, for a folder, everything under it
FilesDelete(F, id) ==
    LET gone == Descendants(F, {id})
    IN [i \in DOMAIN F \ gone |-> F[i]]

\* Files.Update with Trashed: true; what is under a trashed folder is trashed
FilesTrash(F, id) ==
    LET gone == Descendants(F, {id})
    IN [i \in DOMAIN F |-> IF i \in gone THEN [F[i] EXCEPT !.trashed = TRUE] ELSE F[i]]

\* Files.Update with a new name, AddParents and RemoveParents
FilesMove(F, id, name, folderID) ==
    [F EXCEPT ![id].name = name, ![id].parent = folderID]

----------------------------------------------------------------------------
(* APIWrapper *)

cacheKey(folderID, fileName, qf) ==
    folderID \o <<"-", "getFileByFolderAndName", "-">> \o fileName \o <<"-", qf>>

rawGetFileByFolderAndName(F, folderID, fileName, qf) ==
    FilesList(F, folderID, sanitizeName(fileName), qf)

\* a lookup that stores nothing in the cache
getFileByFolderAndNameNoSet(c, F, use, folderID, fileName, fields) ==
    LET qf == IF fields = noFields THEN defaultFields ELSE fields
        key == cacheKey(folderID, fileName, qf)
    IN IF key \in DOMAIN c
       THEN [files |-> c[key], cache |-> c]
       ELSE [files |-> rawGetFileByFolderAndName(F, folderID, fileName, qf), cache |-> c]

\* APIWrapper.getFileByFolderAndName: [files, cache]
getFileByFolderAndName(c, F, use, folderID, fileName, fields) ==
    LET qf == IF fields = noFields THEN defaultFields ELSE fields
        key == cacheKey(folderID, fileName, qf)
    IN IF key \in DOMAIN c
       THEN [files |-> c[key], cache |-> c]
       ELSE LET fileList == rawGetFileByFolderAndName(F, folderID, fileName, qf)
            IN [files |-> fileList,
                cache |-> IF use THEN CacheSet(c, key, fileList) ELSE c]

\* APIWrapper.getFileByFolderAndName with the Files.List call it makes
\* counted, and with a store that answers (storeOK) or fails:
\* [err, files, cache, nbList]
getFileByFolderAndNameCounted(c, F, use, folderID, fileName, fields, storeOK) ==
    LET qf == IF fields = noFields THEN defaultFields ELSE fields
        r == getFileByFolderAndName(c, F, use, folderID, fileName, fields)
    IN IF cacheKey(folderID, fileName, qf) \in DOMAIN c
       THEN [err |-> "nil", files |-> r.files, cache |-> r.cache, nbList |-> 0]
       ELSE IF storeOK
       THEN [err |-> "nil", files |-> r.files, cache |-> r.cache, nbList |-> 1]
       ELSE [err |-> "DriveAPICall", files |-> {}, cache |-> c, nbList |-> 1]

\* a createFile that leaves the cache as it is
wrapperCreateFileKeepingCache(c, F, newID, folderID, fileName, dir) ==
    IF CanCreateUnder(F, folderID)
    THEN [err |-> "nil",
          file |-> [id |-> newID, isDir |-> dir, parents |-> <<>>],
          files |-> FilesCreate(F, newID, folderID, sanitizeName(fileName), dir),
          cache |-> c]
    ELSE [err |-> "DriveAPICall", file |-> [id |-> NoID, isDir |-> FALSE, parents |-> <<>>],
          files |-> F, cache |-> c]

\* APIWrapper.createFile: [err, file, files, cache]
wrapperCreateFile(c, F, newID, folderID, fileName, dir) ==
    IF CanCreateUnder(F, folderID)
    THEN [err |-> "nil",
          file |-> [id |-> newID, isDir |-> dir, parents |-> <<>>],
          files |-> FilesCreate(F, newID, folderID, sanitizeName(fileName), dir),
          cache |-> CleanupByPrefix(c, folderID \o <<"-">>)]
    ELSE [err |-> "DriveAPICall", file |-> [id |-> NoID, isDir |-> FALSE, parents |-> <<>>],
          files |-> F, cache |-> c]

RECURSIVE CleanupParents(_, _)
CleanupParents(c, parents) ==
    IF parents = <<>> THEN c
    ELSE CleanupParents(CleanupByPrefix(c, Head(parents)), Tail(parents))

\* the store refuses to delete or trash the drive's own root and what is gone
CanDelete(F, id) == id \in DOMAIN F /\ id # AbsRootID

\* APIWrapper.deleteFile: [err, files, cache]
wrapperDeleteFile(c, F, file, trash) ==
    IF ~CanDelete(F, file.id)
    THEN [err |-> "DriveAPICall", files |-> F, cache |-> c]
    ELSE [err |-> "nil",
          files |-> IF trash THEN FilesTrash(F, file.id) ELSE FilesDelete(F, file.id),
          cache |-> IF file.isDir THEN CleanupEverything
                                  ELSE CleanupParents(c, file.parents)]

----------------------------------------------------------------------------
(* GDriver: path resolution *)

NoFile == [id |-> NoID, isDir |-> FALSE, parents |-> <<>>]

RootFile(root) == [id |-> root, isDir |-> TRUE, parents |-> <<>>]

Resolved(e, p, f, root, c) ==
    [err |-> e, path |-> p, file |-> f, isRoot |-> root, cache |-> c]

RECURSIVE walkParts(_, _, _, _, _, _, _)

\* the loop body of GDriver.getFileByParts once pathParts[i] is looked up
walkFound(F, use, pathParts, i, fields, r) ==
    IF r.files = {}
    THEN Resolved("NotExist", pathJoin(SubSeq(pathParts, 1, i)), NoFile, FALSE, r.cache)
    ELSE IF Cardinality(r.files) > 1
    THEN Resolved("MultipleEntries", pathJoin(SubSeq(pathParts, 1, i)), NoFile, FALSE,
                  r.cache)
    ELSE IF i = Len(pathParts)
    THEN Resolved("nil", pathJoin(pathParts), CHOOSE f \in r.files : TRUE, FALSE, r.cache)
    ELSE walkParts(r.cache, F, use, (CHOOSE f \in r.files : TRUE).id, pathParts,
                   i + 1, fields)

\* the loop of GDriver.getFileByParts, from pathParts[i] on
walkParts(c, F, use, lastID, pathParts, i, fields) ==
    walkFound(F, use, pathParts, i, fields,
              getFileByFolderAndName(c, F, use, lastID, pathParts[i],
                                     IF i = Len(pathParts) THEN fields ELSE noFields))

\* a path resolution that reports the whole path when a segment is missing
getFileByPartsFullPath(c, F, use, root, pathParts, fields) ==
    IF Len(pathParts) = 0
    THEN Resolved("nil", <<>>, RootFile(root), TRUE, c)
    ELSE [walkParts(c, F, use, root, pathParts, 1, fields) EXCEPT
              !.path = IF walkParts(c, F, use, root, pathParts, 1, fields).err = "NotExist"
                       THEN pathJoin(pathParts) ELSE @]

\* GDriver.getFileByParts: [err, path, file, isRoot, cache]
getFileByParts(c, F, use, root, pathParts, fields) ==
    IF Len(pathParts) = 0
    THEN Resolved("nil", <<>>, RootFile(root), TRUE, c)
    ELSE walkParts(c, F, use, root, pathParts, 1, fields)

\* GDriver.getFile / getFileOnRootNode
getFile(c, F, use, root, path, fields) ==
    getFileByParts(c, F, use, root, FieldsFunc(path), fields)

----------------------------------------------------------------------------
(* GDriver: directories *)

\* result of a driver call: error kind, path the error carries, node, the
\* driver and store after the call, number of Files.Create calls and of
\* Files.Update/Files.Delete calls issued, and whether the id pool ran out
Res(e, p, f, st, k, m, o) ==
    [err |-> e, path |-> p, file |-> f, st |-> st, creates |-> k, updates |-> m,
     full |-> o]

\* the driver after a lookup that left the cache c
Looked(st, c) == [st EXCEPT !.cache = c]

\* the driver after a Files.Create through the wrapper
Created(st, cr) == [st EXCEPT !.cache = cr.cache, !.files = cr.files, !.nb = st.nb + 1]

RECURSIVE mkdirParts(_, _, _, _, _)

\* GDriver.makeDirectoryByParts, case 0 of the loop, after the createFile
mkdirCreated(st, pathParts, i, k, cr) ==
    IF cr.err # "nil"
    THEN Res("DriveAPICall", <<>>, NoFile, st, k + 1, 0, FALSE)
    ELSE mkdirParts(Created(st, cr), cr.file, pathParts, i + 1, k + 1)

\* GDriver.makeDirectoryByParts, the loop body once pathParts[i] is looked up
mkdirFound(st, parentNode, pathParts, i, k, r) ==
    CASE r.files = {} ->
           IF ~parentNode.isDir
           THEN Res("NotADirectory", pathJoin(SubSeq(pathParts, 1, i - 1)),
                    parentNode, Looked(st, r.cache), k, 0, FALSE)
           ELSE IF st.nb >= MaxFiles
           THEN Res("nil", <<>>, NoFile, Looked(st, r.cache), k, 0, TRUE)
           ELSE mkdirCreated(Looked(st, r.cache), pathParts, i, k,
                             wrapperCreateFile(r.cache, st.files, IdPool[st.nb + 1],
                                               parentNode.id, pathParts[i], TRUE))
      [] Cardinality(r.files) = 1 ->
           mkdirParts(Looked(st, r.cache), CHOOSE f \in r.files : TRUE, pathParts,
                      i + 1, k)
      [] OTHER ->
           Res("MultipleEntries", pathJoin(SubSeq(pathParts, 1, i)),
               NoFile, Looked(st, r.cache), k, 0, FALSE)

\* GDriver.makeDirectoryByParts, the loop from pathParts[i] on
mkdirParts(st, parentNode, pathParts, i, k) ==
    IF i > Len(pathParts)
    THEN Res("nil", pathJoin(pathParts), parentNode, st, k, 0, FALSE)
    ELSE mkdirFound(st, parentNode, pathParts, i, k,
                    getFileByFolderAndName(st.cache, st.files, st.use, parentNode.id,
                                           pathParts[i], listFields))

\* GDriver.makeDirectoryByParts
makeDirectoryByParts(st, pathParts) ==
    mkdirParts(st, RootFile(st.root), pathParts, 1, 0)

\* GDriver.MkdirAll
MkdirAllRes(st, p) == makeDirectoryByParts(st, FieldsFunc(p))

\* the result of a call that only resolves a path
Got(st, r) == Res(r.err, r.path, r.file, Looked(st, r.cache), 0, 0, FALSE)

\* GDriver.Stat
StatRes(st, p) == Got(st, getFile(st.cache, st.files, st.use, st.root, p, listFields))

\* the parent directories of pathParts, made by makeDirectoryByParts; the
\* root when there is a single part
makeParents(st, pathParts) ==
    IF Len(pathParts) > 1
    THEN makeDirectoryByParts(st, SubSeq(pathParts, 1, Len(pathParts) - 1))
    ELSE Res("nil", <<>>, RootFile(st.root), st, 0, 0, FALSE)

\* GDriver.createFile, after the Files.Create
createFileCreated(pathParts, md, cr) ==
    IF cr.err # "nil"
    THEN Res("DriveAPICall", <<>>, NoFile, md.st, md.creates + 1, 0, FALSE)
    ELSE Res("nil", pathJoin(pathParts), cr.file, Created(md.st, cr),
             md.creates + 1, 0, FALSE)

\* GDriver.createFile, after the parent directories are made
createFileIn(pathParts, md) ==
    IF md.full \/ md.err # "nil"
    THEN md
    ELSE IF ~md.file.isDir
    THEN Res("NotADirectory", pathJoin(SubSeq(pathParts, 1, Len(pathParts) - 1)),
             md.file, md.st, md.creates, 0, FALSE)
    ELSE IF md.st.nb >= MaxFiles
    THEN Res("nil", <<>>, NoFile, md.st, md.creates, 0, TRUE)
    ELSE createFileCreated(pathParts, md,
                           wrapperCreateFile(md.st.cache, md.st.files,
                                             IdPool[md.st.nb + 1], md.file.id,
                                             pathParts[Len(pathParts)], FALSE))

\* GDriver.createFile, after the lookup of the path itself
createFileFound(st, pathParts, ex) ==
    IF ex.err \notin {"nil", "NotExist"}
    THEN Res(ex.err, ex.path, NoFile, Looked(st, ex.cache), 0, 0, FALSE)
    ELSE createFileIn(pathParts, makeParents(Looked(st, ex.cache), pathParts))

\* GDriver.createFile
createFile(st, filePath) ==
    IF Len(FieldsFunc(filePath)) <= 0
    THEN Res("EmptyPath", <<>>, NoFile, st, 0, 0, FALSE)
    ELSE createFileFound(st, FieldsFunc(filePath),
                         getFileByParts(st.cache, st.files, st.use, st.root,
                                        FieldsFunc(filePath), listFields))

----------------------------------------------------------------------------
(* GDriver: deleting and trashing *)

\* the result of a call that ends with APIWrapper.deleteFile
Deleted(st, fi, d) ==
    Res(d.err, <<>>, fi, [st EXCEPT !.cache = d.cache, !.files = d.files], 0, 1, FALSE)

\* GDriver.deleteFile
deleteFile(st, fi, trash) ==
    Deleted(st, fi, wrapperDeleteFile(st.cache, st.files, fi, trash))

\* GDriver.DeleteDirectory, after the lookup
DeleteDirectoryFound(st, r) ==
    IF r.err # "nil"
    THEN Res(r.err, r.path, NoFile, Looked(st, r.cache), 0, 0, FALSE)
    ELSE IF ~r.file.isDir
    THEN Res("NotADirectory", r.path, r.file, Looked(st, r.cache), 0, 0, FALSE)
    ELSE IF r.isRoot
    THEN Res("ForbiddenOnRoot", <<>>, r.file, Looked(st, r.cache), 0, 0, FALSE)
    ELSE deleteFile(Looked(st, r.cache), r.file, st.trash)

\* GDriver.DeleteDirectory
DeleteDirectoryRes(st, p) ==
    DeleteDirectoryFound(st, getFile(st.cache, st.files, st.use, st.root, p, noFields))

\* GDriver.RemoveAll, after the lookup
RemoveAllFound(st, r) ==
    IF r.err # "nil"
    THEN Res(r.err, r.path, NoFile, Looked(st, r.cache), 0, 0, FALSE)
    ELSE IF r.isRoot
    THEN Res("ForbiddenOnRoot", <<>>, r.file, Looked(st, r.cache), 0, 0, FALSE)
    ELSE deleteFile(Looked(st, r.cache), r.file, st.trash)

\* GDriver.RemoveAll
RemoveAllRes(st, p) ==
    RemoveAllFound(st, getFile(st.cache, st.files, st.use, st.root, p, noFields))

\* GDriver.Remove
RemoveRes(st, p) == RemoveAllRes(st, p)

\* GDriver.trashPath, after the lookup
trashPathFound(st, r) ==
    IF r.err # "nil"
    THEN Res(r.err, r.path, NoFile, Looked(st, r.cache), 0, 0, FALSE)
    ELSE deleteFile(Looked(st, r.cache), r.file, TRUE)

\* GDriver.trashPath
trashPathRes(st, p) ==
    trashPathFound(st, getFile(st.cache, st.files, st.use, st.root, p, noFields))

----------------------------------------------------------------------------
(* GDriver: renaming and moving *)

\* Files.Update of Rename: refused for an entry or a target folder that is
\* gone and for a move of a folder into itself or below itself
CanMove(F, id, folderID) ==
    /\ id \in DOMAIN F
    /\ folderID \in DOMAIN F
    /\ folderID \notin Descendants(F, {id})

\* the Files.Update call of GDriver.Rename, issued on the drive service itself
renameUpdate(st, file, parentNode, name) ==
    IF ~CanMove(st.files, file.id, parentNode.id)
    THEN [err |-> "DriveAPICall", st |-> st]
    ELSE [err |-> "nil",
          st |-> [st EXCEPT !.files = FilesMove(st.files, file.id, sanitizeName(name),
                                                parentNode.id)]]

\* GDriver.Rename, after the Files.Update
RenameUpdated(file, md, up) == Res(up.err, <<>>, file, up.st, md.creates, 1, FALSE)

\* GDriver.Rename, after the parent directories of newPath are made
RenameIn(file, pathParts, md) ==
    IF md.full \/ md.err # "nil"
    THEN md
    ELSE IF ~md.file.isDir
    THEN Res("NotADirectory", <<>>, md.file, md.st, md.creates, 0, FALSE)
    ELSE RenameUpdated(file, md,
                       renameUpdate(md.st, file, md.file, pathParts[Len(pathParts)]))

\* GDriver.Rename, after the lookup of oldPath
RenameFound(st, pathParts, r) ==
    IF r.err # "nil"
    THEN Res(r.err, r.path, NoFile, Looked(st, r.cache), 0, 0, FALSE)
    ELSE IF r.isRoot
    THEN Res("ForbiddenOnRoot", <<>>, r.file, Looked(st, r.cache), 0, 0, FALSE)
    ELSE RenameIn(r.file, pathParts, makeParents(Looked(st, r.cache), pathParts))

\* GDriver.Rename
RenameRes(st, oldPath, newPath) ==
    IF Len(FieldsFunc(newPath)) <= 0
    THEN Res("EmptyPath", <<>>, NoFile, st, 0, 0, FALSE)
    ELSE RenameFound(st, FieldsFunc(newPath),
                     getFile(st.cache, st.files, st.use, st.root, oldPath, renameFields))

----------------------------------------------------------------------------
(* GDriver: root directory and opening *)

\* GDriver.SetRootDirectory, after the lookup
SetRootDirectoryFound(st, r) ==
    IF r.err # "nil"
    THEN Res(r.err, r.path, NoFile, Looked(st, r.cache), 0, 0, FALSE)
    ELSE IF ~r.file.isDir
    THEN Res("NotADirectory", r.path, r.file, Looked(st, r.cache), 0, 0, FALSE)
    ELSE Res("nil", r.path, r.file, [st EXCEPT !.cache = r.cache, !.root = r.file.id],
             0, 0, FALSE)

\* GDriver.SetRootDirectory
SetRootDirectoryRes(st, p) ==
    SetRootDirectoryFound(st, getFile(st.cache, st.files, st.use, AbsRootID, p, listFields))

\* flags of OpenFile, as the set of the bits that are set
OpenFlags == SUBSET {"O_WRONLY", "O_RDWR", "O_CREATE"}

\* Files.Get(id).Download(): refused for an entry that is gone
CanDownload(F, id) == id \in DOMAIN F

\* GDriver.openFileRead with getFileReader at offset 0
openFileRead(st, file, k) ==
    IF CanDownload(st.files, file.id)
    THEN Res("nil", <<>>, file, st, k, 0, FALSE)
    ELSE Res("DriveAPICall", <<>>, NoFile, st, k, 0, FALSE)

\* GDriver.OpenFile, after the createFile of a missing path
OpenFileCreated(cr) ==
    IF cr.full \/ cr.err # "nil" THEN [cr EXCEPT !.file = NoFile] ELSE cr

\* GDriver.OpenFile, after the lookup of the path
OpenFileFound(st, p, flag, r) ==
    IF r.err = "nil"
    THEN IF r.file.isDir \/ "O_WRONLY" \in flag
         THEN Res("nil", <<>>, r.file, Looked(st, r.cache), 0, 0, FALSE)
         ELSE openFileRead(Looked(st, r.cache), r.file, 0)
    ELSE IF r.err # "NotExist"
    THEN Res(r.err, r.path, NoFile, Looked(st, r.cache), 0, 0, FALSE)
    ELSE IF "O_CREATE" \in flag /\ "O_WRONLY" \in flag
    THEN OpenFileCreated(createFile(Looked(st, r.cache), p))
    ELSE Res("NotExist", p, NoFile, Looked(st, r.cache), 0, 0, FALSE)

\* GDriver.OpenFile; the handle it returns is on .file, and it is a write
\* handle when O_WRONLY is set and .file is no directory
OpenFileRes(st, p, flag) ==
    IF p = <<>>
    THEN Res("EmptyPath", <<>>, NoFile, st, 0, 0, FALSE)
    ELSE IF "O_RDWR" \in flag
    THEN Res("ReadAndWriteNotSupported", <<>>, NoFile, st, 0, 0, FALSE)
    ELSE OpenFileFound(st, p, flag,
                       getFile(st.cache, st.files, st.use, st.root, p, listFields))

----------------------------------------------------------------------------
(* The cache package used on its own: state at rest *)

\* callers of one Cache
Goroutines == {1, 2}

NoHolder == 0

\* sync.RWMutex, unlocked
Unlocked == [w |-> NoHolder, r |-> {}]

NoResult == [value |-> "nil", found |-> FALSE, count |-> 0]

\* a goroutine that is in no call
NoCall ==
    [pc |-> "idle", op |-> "none", key |-> <<>>, value |-> "nil", res |-> NoResult,
     expect |-> "?"]

\* no goroutine uses the cache package
NoCacheUse ==
    /\ mutex = Unlocked
    /\ gor = [g \in Goroutines |-> NoCall]
    /\ ref = [pairs |-> {}, removed |-> 0, nbCalls |-> 0]

\* the fields of a decorator of the given kind and size, as its constructor
\* leaves them
NewWriter(kind, size) ==
    [kind |-> kind, maxSize |-> size, buffer |-> <<>>, writeChan |-> <<>>,
     chanClosed |-> FALSE, bufferSize |-> 0, closed |-> FALSE, writeErr |-> <<>>]

\* a goroutine of the decorator specification at the given position
At(pc) == [pc |-> pc, data |-> <<>>, written |-> 0, n |-> 0, err |-> "nil"]

\* a destination that has received nothing and accepts every write; a broken
\* one fails every write from then on
NewDest == [received |-> <<>>, closed |-> FALSE, broken |-> FALSE]

\* no decorator is in use
NoBuf ==
    /\ aw = NewWriter("none", 0)
    /\ awCaller = At("idle")
    /\ awRun = At("none")
    /\ dest = NewDest
    /\ payloads = <<>>

\* no call of the APIWrapper is in flight
NoWrap ==
    wrap = [look |-> [pc |-> "idle", folderID |-> NoID, fileName |-> <<>>,
                      fields |-> noFields, fileList |-> {}],
            create |-> [pc |-> "idle", folderID |-> NoID]]

NoLib == NoCacheUse /\ NoBuf /\ NoWrap

----------------------------------------------------------------------------
(* The filesystem specification: one action per driver call *)

Cur ==
    [cache |-> cache, files |-> files, nb |-> nbCreated, root |-> rootNode,
     trash |-> TrashForDelete, use |-> UseCache]

Call(op, r) ==
    /\ nbCalls < MaxCalls
    /\ ~r.full
    /\ cache' = r.st.cache
    /\ files' = r.st.files
    /\ nbCreated' = r.st.nb
    /\ rootNode' = r.st.root
    /\ nbCalls' = nbCalls + 1
    /\ last' = [op |-> op, err |-> r.err]
    /\ UNCHANGED <<TrashForDelete, UseCache, cfgVars, libVars, streamVars>>

Stat(p) == Call("Stat", StatRes(Cur, p))

MkdirAll(p) == Call("MkdirAll", MkdirAllRes(Cur, p))

DeleteDirectory(p) == Call("DeleteDirectory", DeleteDirectoryRes(Cur, p))

RemoveAll(p) == Call("RemoveAll", RemoveAllRes(Cur, p))

Remove(p) == Call("Remove", RemoveRes(Cur, p))

trashPath(p) == Call("trashPath", trashPathRes(Cur, p))

Rename(oldPath, newPath) == Call("Rename", RenameRes(Cur, oldPath, newPath))

SetRootDirectory(p) == Call("SetRootDirectory", SetRootDirectoryRes(Cur, p))

OpenFile(p, flag) == Call("OpenFile", OpenFileRes(Cur, p, flag))

InitFS ==
    /\ files = (AbsRootID :> [name |-> <<>>, parent |-> NoID, isDir |-> TRUE,
                              trashed |-> FALSE, content |-> <<>>])
    /\ nbCreated = 0
    /\ cache = EmptyCache
    /\ rootNode = AbsRootID
    /\ TrashForDelete \in BOOLEAN
    /\ UseCache = TRUE
    /\ nbCalls = 0
    /\ last = [op |-> "New", err |-> "nil"]

NextFS ==
    \/ \E p \in PathInputs : Stat(p)
    \/ \E p \in PathInputs : MkdirAll(p)
    \/ \E p \in PathInputs : DeleteDirectory(p)
    \/ \E p \in PathInputs : RemoveAll(p)
    \/ \E p \in PathInputs : Remove(p)
    \/ \E p \in PathInputs : trashPath(p)
    \/ \E p \in PathInputs, q \in PathInputs : Rename(p, q)
    \/ \E p \in PathInputs : SetRootDirectory(p)
    \/ \E p \in PathInputs, flag \in OpenFlags : OpenFile(p, flag)

----------------------------------------------------------------------------
(* Remote store: media *)

\* Files.Update(id).Media(reader): refused for an entry that is gone
CanUpload(F, id) == id \in DOMAIN F

\* a completed Files.Update(id).Media(reader) replaces the entry's content
FilesUpdateMedia(F, id, data) == [F EXCEPT ![id].content = data]

\* the response body of Files.Get(id).Download() with "Range: bytes=offset-"
FilesDownload(F, id, offset) ==
    SubSeq(F[id].content, offset + 1, Len(F[id].content))

----------------------------------------------------------------------------
(* File handles: File, getFileWriter, openFileWrite, openFileRead *)

\* what the caller may pass to one Write call
Chunks == UNION {[1..n -> Bytes] : n \in 0..MaxLen}

\* no handle, and the streams of a handle that has none
NoHandle ==
    [open |-> FALSE, id |-> NoID, streamWrite |-> "nil", streamRead |-> "nil",
     streamWriteEnd |-> "nil", streamOffset |-> 0]

\* io.Pipe(): nothing offered by a Write, neither end closed
NewPipe ==
    [offer |-> FALSE, buf |-> <<>>, n |-> 0, wclosed |-> FALSE, rclosed |-> FALSE]

NoUpload == [pc |-> "none", id |-> NoID, got |-> <<>>, err |-> "nil"]

NoBody == [data |-> <<>>, pos |-> 0]

Idle == [pc |-> "idle", p |-> <<>>]

\* GDriver.wrapWriteCloser
wrapWriteCloser(dst) ==
    IF WriteBufferSize = 0
    THEN [writer |-> dst, err |-> "nil"]
    ELSE CASE WriteBufferType = "" -> [writer |-> dst, err |-> "nil"]
           [] WriteBufferType = "simple" -> [writer |-> "BufferedWriteCloser", err |-> "nil"]
           [] WriteBufferType = "chan" -> [writer |-> "AsyncWriterChannel", err |-> "nil"]
           [] WriteBufferType = "async" -> [writer |-> "AsyncWriterBuffer", err |-> "nil"]
           [] OTHER -> [writer |-> "nil", err |-> "UnknownBufferType"]

\* GDriver.openFileWrite: the handle over the writer of getFileWriter; the
\* wrapped writer replaces the pipe's writer only when wrapping failed
openFileWrite(id) ==
    LET writer == "PipeWriter"
        w == wrapWriteCloser(writer)
    IN [open |-> TRUE, id |-> id,
        streamWrite |-> IF w.err # "nil" THEN w.writer ELSE writer,
        streamRead |-> "nil", streamWriteEnd |-> "chan", streamOffset |-> 0]

\* the handle of GDriver.openFileRead
readFile(id) ==
    [open |-> TRUE, id |-> id, streamWrite |-> "nil", streamRead |-> "Body",
     streamWriteEnd |-> "nil", streamOffset |-> 0]

\* the handle OpenFile returns for a directory
dirFile(id) ==
    [open |-> TRUE, id |-> id, streamWrite |-> "nil", streamRead |-> "nil",
     streamWriteEnd |-> "nil", streamOffset |-> 0]

\* the mode a handle is in
Mode(f) ==
    IF f.streamWrite # "nil" THEN "write"
    ELSE IF f.streamRead # "nil" THEN "read" ELSE "none"

Returned(op, mode, n, err) == [op |-> op, mode |-> mode, n |-> n, err |-> err]

\* the path the stream specification opens
StreamPath == <<"a">>

\* GDriver.OpenFile on StreamPath: r is what OpenFile returns and leaves of
\* the driver and the store, f the handle; a write handle comes with its
\* pipe and its upload task, a read handle with its response body
OpenWith(flag, r, f, writing) ==
    /\ caller.pc = "idle"
    /\ upload.pc \in {"none", "done"}
    /\ hist.nbOpens < MaxOpens
    /\ ~r.full
    /\ cache' = r.st.cache
    /\ files' = r.st.files
    /\ nbCreated' = r.st.nb
    /\ File' = f
    /\ pipe' = NewPipe
    /\ upload' = IF writing
                 THEN [pc |-> "running", id |-> r.file.id, got |-> <<>>, err |-> "nil"]
                 ELSE NoUpload
    /\ body' = IF f.streamRead # "nil"
               THEN [data |-> FilesDownload(r.st.files, r.file.id, 0), pos |-> 0]
               ELSE NoBody
    /\ ret' = Returned("OpenFile", Mode(f), 0, r.err)
    /\ hist' = [hist EXCEPT !.nbOpens = @ + 1, !.nbWrites = 0,
                            !.written = <<>>, !.readBack = <<>>,
                            !.nbSeeks = 0, !.sought = FALSE, !.seekAt = 0]
    /\ UNCHANGED <<rootNode, TrashForDelete, UseCache, nbCalls, last, cfgVars, libVars, caller>>

\* the handle OpenFile returns: none on an error, otherwise by the kind of
\* the node and the O_WRONLY bit
HandleOf(flag, r) ==
    IF r.err # "nil" THEN NoHandle
    ELSE IF r.file.isDir THEN dirFile(r.file.id)
    ELSE IF "O_WRONLY" \in flag THEN openFileWrite(r.file.id)
    ELSE readFile(r.file.id)

OpenRes(flag, r) ==
    OpenWith(flag, r, HandleOf(flag, r), r.err = "nil" /\ ~r.file.isDir /\ "O_WRONLY" \in flag)

Open(flag) == OpenRes(flag, OpenFileRes(Cur, StreamPath, flag))

\* File.Write: the call. On a write handle it offers p to the pipe and
\* blocks until the upload task has taken all of it.
Write(p) ==
    /\ caller.pc = "idle"
    /\ File.open
    /\ hist.nbWrites < MaxWrites
    /\ Len(hist.written) + Len(p) <= MaxLen
    /\ hist' = [hist EXCEPT !.nbWrites = @ + 1]
    /\ IF File.streamRead # "nil"
       THEN /\ ret' = Returned("Write", Mode(File), 0, "ReadOnly")
            /\ UNCHANGED <<pipe, caller>>
       ELSE IF File.streamWrite = "nil"
       THEN /\ ret' = Returned("Write", Mode(File), 0, "panic")
            /\ caller' = [pc |-> "panic", p |-> <<>>]
            /\ UNCHANGED pipe
       ELSE IF pipe.rclosed
       THEN /\ ret' = Returned("Write", Mode(File), 0, "DriveStream")
            /\ UNCHANGED <<pipe, caller>>
       ELSE /\ pipe' = [pipe EXCEPT !.offer = TRUE, !.buf = p, !.n = 0]
            /\ caller' = [pc |-> "Write", p |-> p]
            /\ UNCHANGED ret
    /\ UNCHANGED <<fsVars, cfgVars, libVars, File, upload, body>>

\* the upload task's Read on the pipe's reader takes k bytes of what the
\* pending Write offers (none of an empty Write); the Write returns once all
\* of it is taken
UploadRead(k) ==
    LET rest == SubSeq(pipe.buf, k + 1, Len(pipe.buf))
    IN /\ upload.pc = "running"
       /\ pipe.offer
       /\ k = 0 <=> pipe.buf = <<>>
       /\ k <= Len(pipe.buf)
       /\ upload' = [upload EXCEPT !.got = @ \o SubSeq(pipe.buf, 1, k)]
       /\ IF rest = <<>>
          THEN /\ pipe' = [pipe EXCEPT !.offer = FALSE, !.buf = <<>>, !.n = 0]
               /\ caller' = Idle
               /\ File' = [File EXCEPT !.streamOffset = @ + pipe.n + k]
               /\ ret' = Returned("Write", Mode(File), pipe.n + k, "nil")
               /\ hist' = [hist EXCEPT !.written = @ \o caller.p]
          ELSE /\ pipe' = [pipe EXCEPT !.buf = rest, !.n = @ + k]
               /\ UNCHANGED <<caller, File, ret, hist>>
       /\ UNCHANGED <<fsVars, cfgVars, libVars, body>>

\* the upload task's request ends after it has read the pipe to its end:
\* with no error, and the entry then holds what the task has read, or with
\* an error. The task then offers that value on the completion channel.
UploadDone(e) ==
    /\ upload.pc = "running"
    /\ pipe.wclosed
    /\ ~pipe.offer
    /\ e = "nil" => CanUpload(files, upload.id)
    /\ files' = IF e = "nil" THEN FilesUpdateMedia(files, upload.id, upload.got)
                ELSE files
    /\ upload' = [upload EXCEPT !.pc = "sending", !.err = e]
    /\ UNCHANGED <<nbCreated, cache, rootNode, TrashForDelete, UseCache, nbCalls, last>>
    /\ UNCHANGED <<cfgVars, libVars, File, pipe, body, caller, ret, hist>>

\* an upload task that closes the pipe's reader when its request has failed
uploadFailedClosesReader(p) == [p EXCEPT !.rclosed = TRUE]

\* the pipe after the upload task's request has failed: the task goes on to
\* offer the error on the completion channel and leaves the reader as it is
uploadFailed(p) == p

\* the upload task's request fails before it has read the pipe to its end
UploadFails ==
    LET p2 == uploadFailed(pipe)
    IN /\ upload.pc = "running"
       /\ upload' = [upload EXCEPT !.pc = "sending", !.err = "fail"]
       /\ IF p2.rclosed /\ caller.pc = "Write"
          THEN /\ pipe' = [p2 EXCEPT !.offer = FALSE, !.buf = <<>>, !.n = 0]
               /\ caller' = Idle
               /\ File' = [File EXCEPT !.streamOffset = @ + pipe.n]
               /\ ret' = Returned("Write", Mode(File), pipe.n, "DriveStream")
               /\ hist' = [hist EXCEPT !.written = @ \o SubSeq(caller.p, 1, pipe.n)]
          ELSE /\ pipe' = p2
               /\ UNCHANGED <<caller, File, ret, hist>>
       /\ UNCHANGED <<fsVars, cfgVars, libVars, body>>

\* File.Close: the call. On a write handle it closes the pipe's writer and
\* then waits for the completion channel; on a read handle it closes the
\* body; on a handle with no stream it does nothing.
Close ==
    /\ caller.pc = "idle"
    /\ File.open
    /\ IF File.streamWrite # "nil"
       THEN /\ pipe' = [pipe EXCEPT !.wclosed = TRUE]
            /\ caller' = [pc |-> "Close", p |-> <<>>]
            /\ UNCHANGED <<File, ret>>
       ELSE IF File.streamRead # "nil"
       THEN /\ File' = [File EXCEPT !.streamRead = "nil"]
            /\ ret' = Returned("Close", "read", 0, "nil")
            /\ UNCHANGED <<pipe, caller>>
       ELSE /\ ret' = Returned("Close", "none", 0, "nil")
            /\ UNCHANGED <<File, pipe, caller>>
    /\ UNCHANGED <<fsVars, cfgVars, libVars, upload, body, hist>>

\* a Close that returns the error of streamWrite.Close() instead
closeErrOfWriter(err, received) == err

\* what File.Close returns on a write handle: the value it has received
\* from streamWriteEnd, the error of streamWrite.Close() being only logged
closeErr(err, received) == received

\* File.Close on a write handle: the receive from streamWriteEnd, which is
\* the upload task's send, and the return
CloseReceive ==
    LET e == closeErr("nil", upload.err)
    IN /\ caller.pc = "Close"
       /\ upload.pc = "sending"
       /\ upload' = [upload EXCEPT !.pc = "done"]
       /\ File' = [File EXCEPT !.streamWrite = "nil", !.streamWriteEnd = "nil"]
       /\ caller' = Idle
       /\ ret' = Returned("Close", "write", 0, e)
       /\ hist' = [hist EXCEPT !.expect = IF e = "nil" THEN hist.written ELSE @]
       /\ UNCHANGED <<fsVars, cfgVars, libVars, pipe, body>>

\* File.Read with a buffer of len bytes, of which the body fills n
Read(len, n) ==
    LET remaining == Len(body.data) - body.pos
    IN /\ caller.pc = "idle"
       /\ File.open
       /\ n <= len
       /\ IF File.streamWrite # "nil"
          THEN /\ n = 1
               /\ ret' = Returned("Read", Mode(File), 0, "WriteOnly")
               /\ UNCHANGED <<File, body, caller, hist>>
          ELSE IF File.streamRead = "nil"
          THEN /\ n = 1
               /\ ret' = Returned("Read", Mode(File), 0, "panic")
               /\ caller' = [pc |-> "panic", p |-> <<>>]
               /\ UNCHANGED <<File, body, hist>>
          ELSE IF remaining = 0
          THEN /\ n = 1
               /\ ret' = Returned("Read", Mode(File), 0, "EOF")
               /\ UNCHANGED <<File, body, caller, hist>>
          ELSE /\ n <= remaining
               /\ body' = [body EXCEPT !.pos = @ + n]
               /\ File' = [File EXCEPT !.streamOffset = @ + n]
               /\ ret' = Returned("Read", Mode(File), n, "nil")
               /\ hist' = [hist EXCEPT
                             !.readBack = @ \o SubSeq(body.data, body.pos + 1, body.pos + n)]
               /\ UNCHANGED caller
       /\ UNCHANGED <<fsVars, cfgVars, libVars, pipe, upload>>

\* the driver as New leaves it, with no handle open
NoStream ==
    /\ File = NoHandle
    /\ pipe = NewPipe
    /\ upload = NoUpload
    /\ body = NoBody
    /\ caller = Idle
    /\ ret = Returned("New", "none", 0, "nil")
    /\ hist = [nbOpens |-> 0, nbWrites |-> 0, written |-> <<>>,
               expect |-> <<>>, readBack |-> <<>>,
               nbSeeks |-> 0, sought |-> FALSE, seekAt |-> 0]

BufferTypes == {"", "simple", "async", "chan", "other"}

InitStream ==
    /\ InitFS
    /\ ~TrashForDelete
    /\ WriteBufferType \in BufferTypes
    /\ WriteBufferSize \in {0, 1}
    /\ NoStream
    /\ NoLib

NextStream ==
    \/ \E flag \in OpenFlags : Open(flag)
    \/ \E p \in Chunks : Write(p)
    \/ \E k \in 0..MaxLen : UploadRead(k)
    \/ \E e \in {"nil", "fail"} : UploadDone(e)
    \/ UploadFails
    \/ Close
    \/ CloseReceive
    \/ \E len \in 1..MaxLen, n \in 1..MaxLen : Read(len, n)

SpecStream == InitStream /\ [][NextStream]_vars

----------------------------------------------------------------------------
(* The filesystem specification, with the default configuration of New *)

Init ==
    /\ InitFS
    /\ WriteBufferType = ""
    /\ WriteBufferSize = 0
    /\ NoStream
    /\ NoLib

Next == NextFS

Spec == Init /\ [][Next]_vars

----------------------------------------------------------------------------
(* Vocabulary of the claims about the filesystem surface *)

\* what Stat would return against the store itself, with no cached lookup
TrueStat(st, p) == StatRes([st EXCEPT !.cache = EmptyCache, !.use = FALSE], p)

\* the path of the first i segments of p
PrefixPath(p, i) == pathJoin(SubSeq(FieldsFunc(p), 1, i))

NbParts(p) == Len(FieldsFunc(p))

ParentPath(p) == PrefixPath(p, NbParts(p) - 1)

\* q is p or a path below p
IsUnder(q, p) == HasPrefix(FieldsFunc(q), FieldsFunc(p))

\* q is another entry of p's directory
IsSibling(q, p) ==
    /\ NbParts(q) = NbParts(p)
    /\ ParentPath(q) = ParentPath(p)
    /\ FieldsFunc(q) # FieldsFunc(p)

\* what a caller sees of a Stat
Seen(r) == <<r.err, r.file.id, r.file.isDir>>

\* every cached lookup result is what the store would return now
CacheCoherent ==
    \A fid \in {AbsRootID} \cup {IdPool[i] : i \in 1..MaxFiles} :
        \A x \in NameChars : \A qf \in {listFields, defaultFields, renameFields} :
            LET key == cacheKey(fid, <<x>>, qf)
            IN key \in DOMAIN cache =>
                   cache[key] = rawGetFileByFolderAndName(files, fid, <<x>>, qf)

----------------------------------------------------------------------------
(* C1 - C3: writing, closing and reading back *)

C3_WriteThenRead ==
    \A p \in PathInputs : \A flag \in {{"O_WRONLY", "O_CREATE"}, {"O_WRONLY"}} :
        LET w == OpenFileRes(Cur, p, flag)
        IN (/\ w.err = "nil" /\ ~w.full /\ ~w.file.isDir
            /\ CanUpload(w.st.files, w.file.id))
           => \A C \in Chunks :
                 LET r == OpenFileRes(
                            [w.st EXCEPT !.files = FilesUpdateMedia(@, w.file.id, C)],
                            p, {})
                 IN /\ r.err = "nil"
                    /\ ~r.file.isDir
                    /\ FilesDownload(r.st.files, r.file.id, 0) = C

\* C3, restricted to the states in which no cached lookup is stale
C3_WriteThenReadCoherent == CacheCoherent => C3_WriteThenRead

\* C3, on the handles of one path: what is read up to the end of the body
\* is what the last successfully closed write handle was given, in whatever
\* chunks it was given and taken
C3_ReadsBackWhatWasWritten ==
    (ret.op = "Read" /\ ret.err = "EOF") => hist.readBack = hist.expect

----------------------------------------------------------------------------
(* C4 - C10: renaming, deleting, root protection, directories *)

\* C4: after a successful Rename(old, new) of a non-root entry, Stat(new)
\* resolves to the moved entry, Stat(old) fails with NotExist, the parents
\* of new exist and the former parent of old still exists. Stated here for
\* the most favourable case only: old and new are different paths, old
\* really resolves to the entry and nothing is at new before the call.
C4_RenameMoves ==
    \A old \in PathInputs, new \in PathInputs :
        LET r == RenameRes(Cur, old, new)
            before == TrueStat(Cur, old)
        IN (/\ r.err = "nil" /\ ~r.full
            /\ FieldsFunc(old) # FieldsFunc(new)
            /\ before.err = "nil" /\ before.file.id = r.file.id
            /\ TrueStat(Cur, new).err = "NotExist")
           => /\ StatRes(r.st, new).err = "nil"
              /\ StatRes(r.st, new).file.id = r.file.id
              /\ StatRes(r.st, old).err = "NotExist"
              /\ \A i \in 1..(NbParts(new) - 1) :
                    /\ StatRes(r.st, PrefixPath(new, i)).err = "nil"
                    /\ StatRes(r.st, PrefixPath(new, i)).file.isDir
              /\ StatRes(r.st, ParentPath(old)).err = "nil"

\* C5: after a successful Remove(P) of a regular file, Stat(P) fails with
\* NotExist, and Stat of P's parent and of every sibling of P returns what
\* it returned before the call.
C5_RemoveFile ==
    \A p \in PathInputs :
        LET r == RemoveRes(Cur, p)
        IN (r.err = "nil" /\ ~r.file.isDir)
           => /\ StatRes(r.st, p).err = "NotExist"
              /\ Seen(StatRes(r.st, ParentPath(p))) = Seen(StatRes(Cur, ParentPath(p)))
              /\ \A q \in PathInputs :
                    IsSibling(q, p) => Seen(StatRes(r.st, q)) = Seen(StatRes(Cur, q))

\* C5, restricted to the states in which no cached lookup is stale
C5_RemoveFileCoherent == CacheCoherent => C5_RemoveFile

\* C6: after Remove, RemoveAll or DeleteDirectory succeeds on a directory D,
\* Stat fails with NotExist for D and for every path under D.
C6_RemoveDirectory ==
    \A p \in PathInputs :
        \A r \in {RemoveRes(Cur, p), RemoveAllRes(Cur, p), DeleteDirectoryRes(Cur, p)} :
            (r.err = "nil" /\ r.file.isDir)
            => \A q \in PathInputs : IsUnder(q, p) => StatRes(r.st, q).err = "NotExist"

\* C6, restricted to the states in which no cached lookup is stale
C6_RemoveDirectoryCoherent == CacheCoherent => C6_RemoveDirectory

\* C7: Remove, RemoveAll, DeleteDirectory, trashPath and Rename (to a
\* non-empty target) on a path that resolves to the current root fail with
\* ForbiddenOnRoot and issue no mutating remote call. Stated here for a
\* root that SetRootDirectory has moved below the drive's own root.
C7_RootIsProtected ==
    \A p \in PathInputs :
        (NbParts(p) = 0 /\ rootNode # AbsRootID) =>
            \A r \in {RemoveRes(Cur, p), RemoveAllRes(Cur, p), DeleteDirectoryRes(Cur, p),
                      trashPathRes(Cur, p)}
                     \cup {RenameRes(Cur, p, q) : q \in {x \in PathInputs : NbParts(x) > 0}} :
                /\ r.err = "ForbiddenOnRoot"
                /\ r.creates = 0 /\ r.updates = 0
                /\ r.st.files = files

\* C8: after MkdirAll(P) returns without error, Stat of every prefix of P
\* succeeds and every one of those nodes, P included, is a directory.
\* Stated here for the states in which no cached lookup is stale.
C8_MkdirAllMakesDirectories ==
    CacheCoherent =>
        \A p \in PathInputs :
            LET r == MkdirAllRes(Cur, p)
            IN (r.err = "nil" /\ ~r.full)
               => \A i \in 1..NbParts(p) :
                     /\ StatRes(r.st, PrefixPath(p, i)).err = "nil"
                     /\ StatRes(r.st, PrefixPath(p, i)).file.isDir

\* C9: a second MkdirAll(P) after a successful MkdirAll(P) succeeds, issues
\* no create call and leaves the remote tree unchanged.
C9_MkdirAllIdempotent ==
    \A p \in PathInputs :
        LET r1 == MkdirAllRes(Cur, p)
            r2 == MkdirAllRes(r1.st, p)
        IN (r1.err = "nil" /\ ~r1.full)
           => /\ r2.err = "nil"
              /\ r2.creates = 0
              /\ r2.st.files = r1.st.files

\* C9, restricted to the states in which no cached lookup is stale
C9_MkdirAllIdempotentCoherent == CacheCoherent => C9_MkdirAllIdempotent

\* C10: OpenFile(P, O_WRONLY|O_CREATE) on a path whose parent directories do
\* not exist creates them, so that afterwards Stat succeeds for P and for
\* each of its ancestors, the ancestors being directories and P not.
C10_CreateMakesParents ==
    \A p \in PathInputs :
        LET r == OpenFileRes(Cur, p, {"O_WRONLY", "O_CREATE"})
        IN (/\ NbParts(p) > 1
            /\ TrueStat(Cur, PrefixPath(p, 1)).err = "NotExist"
            /\ r.err = "nil" /\ ~r.full)
           => /\ StatRes(r.st, p).err = "nil"
              /\ ~StatRes(r.st, p).file.isDir
              /\ \A i \in 1..(NbParts(p) - 1) :
                    /\ StatRes(r.st, PrefixPath(p, i)).err = "nil"
                    /\ StatRes(r.st, PrefixPath(p, i)).file.isDir

\* C10, restricted to the states in which no cached lookup is stale
C10_CreateMakesParentsCoherent == CacheCoherent => C10_CreateMakesParents

----------------------------------------------------------------------------
(* GDriver.listDirectory and the paged Files.List behind File.Readdir *)

filesListPageSizeMax == 1000

\* the largest page the store hands out, whatever page size is asked for
ServerPageSizes == {1, 2}

\* the counts handed to Readdir
Counts == {-1, 0, 1, 2, 3}

\* path.Join of two elements, empty ones dropped
JoinPath(a, b) ==
    IF a = <<>> THEN b ELSE IF b = <<>> THEN a ELSE a \o <<"/">> \o b

CharCode(c) == CASE c = "-" -> 1 [] c = "a" -> 2 [] c = "b" -> 3 [] OTHER -> 0

\* s sorts before t as a string
RECURSIVE NameBefore(_, _)
NameBefore(s, t) ==
    IF s = <<>> THEN t # <<>>
    ELSE IF t = <<>> THEN FALSE
    ELSE IF s[1] # t[1] THEN CharCode(s[1]) < CharCode(t[1])
    ELSE NameBefore(Tail(s), Tail(t))

IdRank(id) == CHOOSE i \in 1..Len(IdPool) : IdPool[i] = id

\* OrderBy("name"): entries of the same name come in the order of their ids
Before(F, i, j) ==
    \/ NameBefore(F[i].name, F[j].name)
    \/ F[i].name = F[j].name /\ IdRank(i) < IdRank(j)

RECURSIVE OrderByName(_, _)
OrderByName(F, S) ==
    IF S = {} THEN <<>>
    ELSE <<CHOOSE i \in S : \A j \in S \ {i} : Before(F, i, j)>>
         \o OrderByName(F, S \ {CHOOSE i \in S : \A j \in S \ {i} : Before(F, i, j)})

\* the result of the query "'folderID' in parents and trashed = false"
ChildrenOf(F, folderID) ==
    {j \in DOMAIN F : F[j].parent = folderID /\ ~F[j].trashed}

\* the page of all that starts after pageToken entries; nextPageToken is 0
\* (the empty token) on the last page
PageOf(all, pageToken, n) ==
    [files |-> SubSeq(all, pageToken + 1,
                      IF pageToken + n < Len(all) THEN pageToken + n ELSE Len(all)),
     nextPageToken |-> IF pageToken + n < Len(all) THEN pageToken + n ELSE 0]

\* Files.List(...).OrderBy("name").PageSize(pageSize).PageToken(pageToken)
FilesListPage(F, folderID, pageToken, pageSize, serverMax) ==
    PageOf(OrderByName(F, ChildrenOf(F, folderID)), pageToken,
           IF pageSize < serverMax THEN pageSize ELSE serverMax)

\* FileInfo.Path / FileInfo.Name
FileInfoPath(parentPath, name) == JoinPath(parentPath, sanitizeName(name))

\* the FileInfo values listDirectory makes of one page
PageInfos(F, page, parentPath) ==
    [i \in 1..Len(page.files) |->
        [id |-> page.files[i],
         isDir |-> F[page.files[i]].isDir,
         path |-> FileInfoPath(parentPath, F[page.files[i]].name)]]

RECURSIVE listLoop(_, _, _, _, _, _, _)

\* GDriver.listDirectory: the loop body after the Files.List call
listPage(F, dirID, dirPath, count, got, serverMax, page) ==
    IF page.nextPageToken = 0
    THEN [err |-> "nil", files |-> got \o PageInfos(F, page, dirPath), dirListToken |-> 0]
    ELSE listLoop(F, dirID, dirPath, page.nextPageToken, count,
                  got \o PageInfos(F, page, dirPath), serverMax)

\* GDriver.listDirectory: the loop
listLoop(F, dirID, dirPath, dirListToken, count, got, serverMax) ==
    IF ~(count < 0 \/ Len(got) < count)
    THEN [err |-> "nil", files |-> got, dirListToken |-> dirListToken]
    ELSE listPage(F, dirID, dirPath, count, got, serverMax,
                  FilesListPage(F, dirID, dirListToken,
                                IF \/ count - Len(got) > filesListPageSizeMax
                                   \/ count - Len(got) <= 0
                                THEN filesListPageSizeMax
                                ELSE count - Len(got),
                                serverMax))

\* GDriver.listDirectory on a handle over the node fi with path dirPath
listDirectory(F, fi, dirPath, dirListToken, count, serverMax) ==
    IF ~fi.isDir
    THEN [err |-> "NotADirectory", files |-> <<>>, dirListToken |-> dirListToken]
    ELSE listLoop(F, fi.id, dirPath, dirListToken, count, <<>>, serverMax)

\* the Path() of the node a path resolves to: the root's own FileInfo when
\* the path has no segment, otherwise the FileInfo getFileByParts builds
HandlePath(F, root, p) ==
    IF FieldsFunc(p) = <<>>
    THEN FileInfoPath(<<>>, F[root].name)
    ELSE FileInfoPath(pathJoin(SubSeq(FieldsFunc(p), 1, Len(FieldsFunc(p)) - 1)),
                      sanitizeName(FieldsFunc(p)[Len(FieldsFunc(p))]))

\* File.Readdir(count) on the handle OpenFile(p) returned in r
Readdir(r, p, count, serverMax) ==
    listDirectory(r.st.files, r.file, HandlePath(r.st.files, r.st.root, p), 0, count,
                  serverMax)

----------------------------------------------------------------------------
(* C11 - C16: the tree the driver keeps, listing and path errors *)

\* no directory of F has two non-trashed children with the same name
NamesUnique(F) ==
    \A i \in DOMAIN F : \A j \in DOMAIN F :
        (/\ i # j
         /\ ~F[i].trashed /\ ~F[j].trashed
         /\ F[i].parent = F[j].parent)
        => F[i].name # F[j].name

\* the calls C11 is about
TreeCalls == {"MkdirAll", "OpenFile", "Rename", "Remove", "Stat"}

\* C11: a MkdirAll, OpenFile, Rename, Remove or Stat call made on a tree in
\* which no directory has two non-trashed children of the same name leaves
\* such a tree.
C11_NamesStayUnique ==
    [][(NamesUnique(files) /\ last'.op \in TreeCalls) => NamesUnique(files')]_vars

\* C11, for every call but Rename, on the states in which no cached lookup
\* is stale
C11_NamesStayUniqueButRename ==
    [][(NamesUnique(files) /\ CacheCoherent /\ last'.op # "Rename")
           => NamesUnique(files')]_vars

\* the children of the directory at p as a listing reports them, by path
ChildPaths(F, id, p) ==
    {JoinPath(pathJoin(FieldsFunc(p)), F[j].name) : j \in ChildrenOf(F, id)}

\* what a listing reported, by path
ListedPaths(l) == {l.files[i].path : i \in 1..Len(l.files)}

\* a Readdir result is exactly the children of the directory OpenFile found
ListsChildren(r, p, l) ==
    /\ l.err = "nil"
    /\ Len(l.files) = Cardinality(ChildrenOf(r.st.files, r.file.id))
    /\ {l.files[i].id : i \in 1..Len(l.files)} = ChildrenOf(r.st.files, r.file.id)
    /\ ListedPaths(l) = ChildPaths(r.st.files, r.file.id, p)

\* C12: OpenFile for read of a path that is a directory succeeds and Readdir
\* on the handle returns exactly the non-trashed direct children, each once
\* and with the path D/childname, for every count and every page size of
\* the store.
C12_ReaddirListsChildren ==
    CacheCoherent =>
        \A p \in PathInputs \ {<<>>} :
            LET r == OpenFileRes(Cur, p, {})
            IN (TrueStat(Cur, p).err = "nil" /\ TrueStat(Cur, p).file.isDir)
               => /\ r.err = "nil" /\ r.file.isDir
                  /\ \A count \in Counts : \A serverMax \in ServerPageSizes :
                        ListsChildren(r, p, Readdir(r, p, count, serverMax))

\* C12, for a count that asks for everything (negative) or for at least as
\* many entries as the directory has, on a directory below the root
C12_ReaddirListsChildrenWhenAskedForAll ==
    CacheCoherent =>
        \A p \in PathInputs \ {<<>>} :
            LET r == OpenFileRes(Cur, p, {})
            IN (TrueStat(Cur, p).err = "nil" /\ TrueStat(Cur, p).file.isDir)
               => /\ r.err = "nil" /\ r.file.isDir
                  /\ \A count \in Counts : \A serverMax \in ServerPageSizes :
                        (/\ NbParts(p) > 0
                         /\ \/ count < 0
                            \/ count >= Cardinality(ChildrenOf(r.st.files, r.file.id))
                               /\ count > 0)
                        => ListsChildren(r, p, Readdir(r, p, count, serverMax))

\* what C13 says of OpenFile(p, flag) on the driver st
OpenFileFlags(st, p, flag, r) ==
    /\ "O_RDWR" \in flag
           => r.err = "ReadAndWriteNotSupported" /\ r.file = NoFile /\ r.st = st
    /\ r.creates > 0 => {"O_CREATE", "O_WRONLY"} \subseteq flag
    /\ (/\ "O_RDWR" \notin flag
        /\ TrueStat(st, p).err = "NotExist"
        /\ ~({"O_CREATE", "O_WRONLY"} \subseteq flag))
           => /\ r.err = "NotExist" /\ r.path = p
              /\ r.file = NoFile
              /\ r.creates = 0 /\ r.st.files = st.files

\* C13: OpenFile answers a flag set with O_RDWR by ReadAndWriteNotSupported,
\* creates a file only when O_CREATE and O_WRONLY are both set, and on a path
\* that does not exist fails for every other flag set with NotExist carrying
\* the requested path, with no handle and nothing created.
C13_OpenFileFlags ==
    \A p \in PathInputs \ {<<>>} : \A flag \in OpenFlags :
        OpenFileFlags(Cur, p, flag, OpenFileRes(Cur, p, flag))

\* C13, restricted to the states in which no cached lookup is stale
C13_OpenFileFlagsCoherent == CacheCoherent => C13_OpenFileFlags

\* the fields getFileByParts asks for at segment i
FieldsAt(parts, i, fields) ==
    IF i = Len(parts) THEN (IF fields = noFields THEN defaultFields ELSE fields)
    ELSE defaultFields

\* what the wrapper answers to the lookup of name under folderID
Matches(st, folderID, name, qf) ==
    getFileByFolderAndName(st.cache, st.files, st.use, folderID, name, qf).files

\* the node the first i segments lead to when each of them has exactly one
\* match; NoID otherwise
RECURSIVE ReachedID(_, _, _)
ReachedID(st, parts, i) ==
    IF i = 0 THEN st.root
    ELSE IF ReachedID(st, parts, i - 1) = NoID THEN NoID
    ELSE IF Cardinality(Matches(st, ReachedID(st, parts, i - 1), parts[i],
                                defaultFields)) # 1
    THEN NoID
    ELSE (CHOOSE f \in Matches(st, ReachedID(st, parts, i - 1), parts[i],
                               defaultFields) : TRUE).id

\* segment i is the first one with no match, the ones before having one each
ZeroMatchesAt(st, parts, i, fields) ==
    /\ ReachedID(st, parts, i - 1) # NoID
    /\ Matches(st, ReachedID(st, parts, i - 1), parts[i], FieldsAt(parts, i, fields)) = {}

\* the cache keys of the lookups of the segments 1..i
KeysUpTo(st, parts, i, fields) ==
    {cacheKey(ReachedID(st, parts, j - 1), parts[j], FieldsAt(parts, j, fields)) :
        j \in 1..i}

\* C14: when the lookup of segment i finds no match, the resolution fails
\* with NotExist carrying the join of the segments 1..i and looks up no later
\* segment; once Remove has deleted a directory, so that the store has its
\* parent and no entry of its name, Stat of a path under it reports the
\* directory.
C14_NotExistNamesMissingSegment ==
    /\ \A p \in PathInputs : \A fields \in {listFields, noFields, renameFields} :
          \A i \in 1..NbParts(p) :
              ZeroMatchesAt(Cur, FieldsFunc(p), i, fields)
              => LET r == getFile(cache, files, UseCache, rootNode, p, fields)
                 IN /\ r.err = "NotExist"
                    /\ r.path = PrefixPath(p, i)
                    /\ (DOMAIN r.cache) \ (DOMAIN cache)
                           \subseteq KeysUpTo(Cur, FieldsFunc(p), i, fields)
    /\ \A p \in PathInputs :
          LET r == RemoveRes(Cur, p)
          IN (/\ r.err = "nil" /\ r.file.isDir
              /\ TrueStat(r.st, p).err = "NotExist"
              /\ TrueStat(r.st, p).path = pathJoin(FieldsFunc(p)))
             => \A q \in {x \in PathInputs : IsUnder(x, p)} :
                    /\ StatRes(r.st, q).err = "NotExist"
                    /\ StatRes(r.st, q).path = pathJoin(FieldsFunc(p))

\* C14, its case: a directory a was trashed by Remove, and Stat of a/b
\* reports a
C14_Witness ==
    /\ last = [op |-> "Remove", err |-> "nil"]
    /\ \E i \in DOMAIN files :
          /\ files[i].trashed /\ files[i].isDir
          /\ files[i].parent = rootNode /\ files[i].name = <<"a">>
    /\ ZeroMatchesAt(Cur, <<<<"a">>, <<"b">>>>, 1, listFields)
    /\ StatRes(Cur, <<"a", "/", "b">>).err = "NotExist"
    /\ StatRes(Cur, <<"a", "/", "b">>).path = <<"a">>

\* the call failed with MultipleEntries carrying path and changed nothing in
\* the store
RefusedAsMultiple(st, r, path) ==
    /\ r.err = "MultipleEntries" /\ r.path = path
    /\ r.st.files = st.files
    /\ r.creates = 0 /\ r.updates = 0

\* what C15 says of the calls on the path p, a segment of which has several
\* matches in the store, path being the prefix up to that segment
SurfacesMultiple(st, p, path) ==
    /\ RefusedAsMultiple(st, StatRes(st, p), path)
    /\ \A flag \in OpenFlags :
          "O_RDWR" \notin flag => RefusedAsMultiple(st, OpenFileRes(st, p, flag), path)
    /\ RefusedAsMultiple(st, RemoveRes(st, p), path)
    /\ RefusedAsMultiple(st, RemoveAllRes(st, p), path)
    /\ RefusedAsMultiple(st, DeleteDirectoryRes(st, p), path)
    /\ \A q \in PathInputs \ {<<>>, <<"/">>} :
          RefusedAsMultiple(st, RenameRes(st, p, q), path)
    /\ RefusedAsMultiple(st, MkdirAllRes(st, p), path)

\* C15: when a segment of p has more than one non-trashed match in the
\* store, Stat, OpenFile, Remove, Rename and MkdirAll of p fail with
\* MultipleEntries carrying the prefix up to that segment and mutate nothing.
C15_MultipleEntriesSurfaced ==
    \A p \in PathInputs :
        TrueStat(Cur, p).err = "MultipleEntries"
        => SurfacesMultiple(Cur, p, TrueStat(Cur, p).path)

\* C15, for a driver that has no cached lookup of the store as it is
C15_MultipleEntriesSurfacedUncached ==
    \A p \in PathInputs :
        TrueStat(Cur, p).err = "MultipleEntries"
        => SurfacesMultiple([Cur EXCEPT !.cache = EmptyCache], p, TrueStat(Cur, p).path)

\* the paths of C16: those handed to the driver and the ones a segment longer
DeepPaths ==
    PathInputs \cup {<<x, "/", y, "/", z>> : x \in NameChars, y \in NameChars,
                                             z \in NameChars}

\* the call failed with NotADirectory naming path and created nothing
RefusedAsNotADirectory(st, r, path) ==
    /\ ~r.full
    /\ r.err = "NotADirectory" /\ r.path = path
    /\ r.creates = 0 /\ r.st.files = st.files

\* C16: MkdirAll and OpenFile(O_WRONLY|O_CREATE) on a path one of whose
\* proper ancestors is a regular file fail with NotADirectory naming that
\* file's path and create no entry.
C16_FileAncestorRefused ==
    \A p \in DeepPaths : \A i \in 1..(NbParts(p) - 1) :
        (/\ TrueStat(Cur, PrefixPath(p, i)).err = "nil"
         /\ ~TrueStat(Cur, PrefixPath(p, i)).file.isDir)
        => /\ RefusedAsNotADirectory(Cur, MkdirAllRes(Cur, p), PrefixPath(p, i))
           /\ RefusedAsNotADirectory(Cur, OpenFileRes(Cur, p, {"O_WRONLY", "O_CREATE"}),
                                     PrefixPath(p, i))

\* C16, restricted to the states in which no cached lookup is stale
C16_FileAncestorRefusedCoherent == CacheCoherent => C16_FileAncestorRefused

----------------------------------------------------------------------------
(* cache.Cache called from several goroutines *)

\* at most this many Cache calls are started
MaxCacheCalls == 4

CacheKeys == {<<"a">>, <<"a", "b">>, <<"b">>}
CachePrefixes == {<<>>, <<"a">>, <<"a", "b">>, <<"b">>}
CacheValues == {"v", "w"}

\* a map slot that a Set has begun to write and not finished
Torn == "torn"

\* Cache.Get: value and found
CacheGet(c, key) ==
    IF key \in DOMAIN c
    THEN [value |-> c[key], found |-> TRUE, count |-> 0]
    ELSE [value |-> "nil", found |-> FALSE, count |-> 0]

\* Cache.Delete
CacheDelete(c, key) == [k \in (DOMAIN c) \ {key} |-> c[k]]

\* the count CleanupByPrefix returns
CleanupByPrefixCount(c, prefix) == Cardinality({k \in DOMAIN c : HasPrefix(k, prefix)})

CacheWrites == {"Set", "Delete", "CleanupByPrefix", "CleanupEverything"}

\* mutex.Lock() can return
CanLock(m) == m.w = NoHolder /\ m.r = {}

\* an RLock that does not wait for the writer
CanRLockAnyTime(m) == TRUE

\* mutex.RLock() can return
CanRLock(m) == m.w = NoHolder

\* the call of goroutine g changes what Get(k) returns
Affects(call, k) ==
    \/ call.op \in {"Set", "Delete"} /\ call.key = k
    \/ call.op = "CleanupByPrefix" /\ HasPrefix(k, call.key)
    \/ call.op = "CleanupEverything"

\* a goroutine starts a call; a Get notes the value a completed Set left for its
\* key (expect), and a call that can change a key discards what was noted for it
CacheCall(g, op, k, v) ==
    LET call == [pc |-> "lock", op |-> op, key |-> k, value |-> v, res |-> NoResult,
                 expect |-> "?"]
        InFlight(x) == \E h \in Goroutines : gor[h].pc # "idle" /\ Affects(gor[h], x)
        \* the goroutines whose last call is a returned Set(x, _) nothing overlapped
        Settled(x) ==
            {h \in Goroutines : gor[h].pc = "idle" /\ gor[h].op = "Set"
                               /\ gor[h].key = x /\ gor[h].expect = "set"}
    IN /\ gor[g].pc = "idle"
       /\ ref.nbCalls < MaxCacheCalls
       /\ gor' = [h \in Goroutines |->
                    IF h = g
                    THEN [call EXCEPT !.expect =
                            IF op = "Get" /\ ~InFlight(k) /\ Settled(k) # {}
                            THEN gor[CHOOSE s \in Settled(k) : TRUE].value
                            ELSE IF op = "Set" /\ ~InFlight(k) THEN "alone"
                            ELSE "?"]
                    ELSE IF Affects(call, gor[h].key) /\ gor[h].op \in {"Get", "Set"}
                         THEN [gor[h] EXCEPT !.expect = "?"]
                         ELSE gor[h]]
       /\ ref' = [ref EXCEPT !.nbCalls = @ + 1]
       /\ UNCHANGED <<cache, mutex>>

\* c.mutex.Lock()
Lock(g) ==
    /\ gor[g].pc = "lock"
    /\ gor[g].op \in CacheWrites
    /\ CanLock(mutex)
    /\ mutex' = [mutex EXCEPT !.w = g]
    /\ gor' = [gor EXCEPT ![g].pc = "in"]
    /\ UNCHANGED <<cache, ref>>

\* c.mutex.RLock()
RLock(g) ==
    /\ gor[g].pc = "lock"
    /\ gor[g].op = "Get"
    /\ CanRLock(mutex)
    /\ mutex' = [mutex EXCEPT !.r = @ \cup {g}]
    /\ gor' = [gor EXCEPT ![g].pc = "in"]
    /\ UNCHANGED <<cache, ref>>

\* Cache.Set, the map assignment begins
SetBegin(g) ==
    /\ gor[g].pc = "in"
    /\ gor[g].op = "Set"
    /\ cache' = CacheSet(cache, gor[g].key, Torn)
    /\ gor' = [gor EXCEPT ![g].pc = "store"]
    /\ UNCHANGED <<mutex, ref>>

\* Cache.Set, the map assignment is done
SetEnd(g) ==
    /\ gor[g].pc = "store"
    /\ cache' = CacheSet(cache, gor[g].key, gor[g].value)
    /\ gor' = [gor EXCEPT ![g].pc = "unlock"]
    /\ ref' = [ref EXCEPT !.pairs = {x \in @ : x[1] # gor[g].key}
                                      \cup {<<gor[g].key, gor[g].value>>}]
    /\ UNCHANGED mutex

\* Cache.Get, the map lookup
GetRead(g) ==
    /\ gor[g].pc = "in"
    /\ gor[g].op = "Get"
    /\ gor' = [gor EXCEPT ![g].pc = "unlock", ![g].res = CacheGet(cache, gor[g].key)]
    /\ UNCHANGED <<cache, mutex, ref>>

\* Cache.Delete
Delete(g) ==
    /\ gor[g].pc = "in"
    /\ gor[g].op = "Delete"
    /\ cache' = CacheDelete(cache, gor[g].key)
    /\ gor' = [gor EXCEPT ![g].pc = "unlock"]
    /\ ref' = [ref EXCEPT !.pairs = {x \in @ : x[1] # gor[g].key}]
    /\ UNCHANGED mutex

\* Cache.CleanupByPrefix
CleanupByPrefixCall(g) ==
    /\ gor[g].pc = "in"
    /\ gor[g].op = "CleanupByPrefix"
    /\ cache' = CleanupByPrefix(cache, gor[g].key)
    /\ gor' = [gor EXCEPT ![g].pc = "unlock",
                          ![g].res.count = CleanupByPrefixCount(cache, gor[g].key)]
    /\ ref' = [ref EXCEPT
                 !.pairs = {x \in @ : ~HasPrefix(x[1], gor[g].key)},
                 !.removed = Cardinality({x \in ref.pairs : HasPrefix(x[1], gor[g].key)})]
    /\ UNCHANGED mutex

\* Cache.CleanupEverything
CleanupEverythingCall(g) ==
    /\ gor[g].pc = "in"
    /\ gor[g].op = "CleanupEverything"
    /\ cache' = CleanupEverything
    /\ gor' = [gor EXCEPT ![g].pc = "unlock"]
    /\ ref' = [ref EXCEPT !.pairs = {}]
    /\ UNCHANGED mutex

\* the deferred Unlock / RUnlock, and the return; a Set that no call on its
\* key overlapped leaves its value for the Gets that start later
CacheReturn(g) ==
    /\ gor[g].pc = "unlock"
    /\ mutex' = IF gor[g].op = "Get"
                THEN [mutex EXCEPT !.r = @ \ {g}]
                ELSE [mutex EXCEPT !.w = NoHolder]
    /\ gor' = [gor EXCEPT ![g].pc = "idle",
                          ![g].expect = IF gor[g].op = "Set" /\ @ = "alone" THEN "set"
                                        ELSE IF gor[g].op = "Get" THEN @
                                        ELSE "?"]
    /\ UNCHANGED <<cache, ref>>

InitCache ==
    /\ InitFS
    /\ ~TrashForDelete
    /\ WriteBufferType = ""
    /\ WriteBufferSize = 0
    /\ NoStream
    /\ NoLib

NextCache ==
    \/ \E g \in Goroutines, k \in CacheKeys, v \in CacheValues :
          /\ CacheCall(g, "Set", k, v)
          /\ UNCHANGED <<files, nbCreated, rootNode, TrashForDelete, UseCache, nbCalls, last,
                         cfgVars, streamVars, bufVars, wrapVars>>
    \/ \E g \in Goroutines, k \in CacheKeys :
          /\ CacheCall(g, "Get", k, "nil")
          /\ UNCHANGED <<files, nbCreated, rootNode, TrashForDelete, UseCache, nbCalls, last,
                         cfgVars, streamVars, bufVars, wrapVars>>
    \/ \E g \in Goroutines, k \in CacheKeys :
          /\ CacheCall(g, "Delete", k, "nil")
          /\ UNCHANGED <<files, nbCreated, rootNode, TrashForDelete, UseCache, nbCalls, last,
                         cfgVars, streamVars, bufVars, wrapVars>>
    \/ \E g \in Goroutines, p \in CachePrefixes :
          /\ CacheCall(g, "CleanupByPrefix", p, "nil")
          /\ UNCHANGED <<files, nbCreated, rootNode, TrashForDelete, UseCache, nbCalls, last,
                         cfgVars, streamVars, bufVars, wrapVars>>
    \/ \E g \in Goroutines :
          /\ CacheCall(g, "CleanupEverything", <<>>, "nil")
          /\ UNCHANGED <<files, nbCreated, rootNode, TrashForDelete, UseCache, nbCalls, last,
                         cfgVars, streamVars, bufVars, wrapVars>>
    \/ \E g \in Goroutines :
          /\ Lock(g)
          /\ UNCHANGED <<files, nbCreated, rootNode, TrashForDelete, UseCache, nbCalls, last,
                         cfgVars, streamVars, bufVars, wrapVars>>
    \/ \E g \in Goroutines :
          /\ RLock(g)
          /\ UNCHANGED <<files, nbCreated, rootNode, TrashForDelete, UseCache, nbCalls, last,
                         cfgVars, streamVars, bufVars, wrapVars>>
    \/ \E g \in Goroutines :
          /\ SetBegin(g)
          /\ UNCHANGED <<files, nbCreated, rootNode, TrashForDelete, UseCache, nbCalls, last,
                         cfgVars, streamVars, bufVars, wrapVars>>
    \/ \E g \in Goroutines :
          /\ SetEnd(g)
          /\ UNCHANGED <<files, nbCreated, rootNode, TrashForDelete, UseCache, nbCalls, last,
                         cfgVars, streamVars, bufVars, wrapVars>>
    \/ \E g \in Goroutines :
          /\ GetRead(g)
          /\ UNCHANGED <<files, nbCreated, rootNode, TrashForDelete, UseCache, nbCalls, last,
                         cfgVars, streamVars, bufVars, wrapVars>>
    \/ \E g \in Goroutines :
          /\ Delete(g)
          /\ UNCHANGED <<files, nbCreated, rootNode, TrashForDelete, UseCache, nbCalls, last,
                         cfgVars, streamVars, bufVars, wrapVars>>
    \/ \E g \in Goroutines :
          /\ CleanupByPrefixCall(g)
          /\ UNCHANGED <<files, nbCreated, rootNode, TrashForDelete, UseCache, nbCalls, last,
                         cfgVars, streamVars, bufVars, wrapVars>>
    \/ \E g \in Goroutines :
          /\ CleanupEverythingCall(g)
          /\ UNCHANGED <<files, nbCreated, rootNode, TrashForDelete, UseCache, nbCalls, last,
                         cfgVars, streamVars, bufVars, wrapVars>>
    \/ \E g \in Goroutines :
          /\ CacheReturn(g)
          /\ UNCHANGED <<files, nbCreated, rootNode, TrashForDelete, UseCache, nbCalls, last,
                         cfgVars, streamVars, bufVars, wrapVars>>

SpecCache == InitCache /\ [][NextCache]_vars

----------------------------------------------------------------------------
(* C17 - C18: the cache *)

\* the Get calls that have read the map
GetsDone == {g \in Goroutines : gor[g].op = "Get" /\ gor[g].pc \in {"unlock", "idle"}}

\* C17: a Get(k) that starts after a Set(k, v) has returned, with no Set, Delete
\* or cleanup touching k since that Set began, returns (v, true); and no Get,
\* whatever runs beside it, returns the slot of a Set that is half written
C17_GetSeesCompletedSet ==
    \A g \in GetsDone :
        /\ gor[g].expect \in CacheValues
              => gor[g].res.found /\ gor[g].res.value = gor[g].expect
        /\ gor[g].res.value # Torn

\* a Get has returned the value of the completed Set while the other goroutine
\* was inside a Set on another key
C17_Witness ==
    \E g \in GetsDone, h \in Goroutines :
        /\ gor[g].pc = "idle"
        /\ gor[g].expect \in CacheValues
        /\ gor[g].res.value = gor[g].expect
        /\ gor[h].op = "Set"
        /\ gor[h].pc = "store"

PairsOf(c) == {<<k, c[k]>> : k \in DOMAIN c}

\* what a plain map holding these pairs returns for k
PlainGet(pairs, k) ==
    IF \E x \in pairs : x[1] = k
    THEN [value |-> (CHOOSE x \in pairs : x[1] = k)[2], found |-> TRUE, count |-> 0]
    ELSE NoResult

\* C18: the Cache is a plain map: outside a Set's assignment it holds exactly the
\* pairs of the map on which Set stores, Delete removes one key, CleanupByPrefix
\* removes the keys starting with the prefix and CleanupEverything removes all;
\* Get returns what that map holds, CleanupByPrefix the number it removed
C18_CacheIsPlainMap ==
    /\ (\A g \in Goroutines : gor[g].pc # "store") => PairsOf(cache) = ref.pairs
    /\ \A g \in Goroutines :
          gor[g].pc = "unlock" =>
             /\ gor[g].op = "Get" => gor[g].res = PlainGet(ref.pairs, gor[g].key)
             /\ gor[g].op = "CleanupByPrefix" => gor[g].res.count = ref.removed

\* CleanupByPrefix has removed two of three entries
C18_Witness ==
    \E g \in Goroutines :
        /\ gor[g].pc = "unlock"
        /\ gor[g].op = "CleanupByPrefix"
        /\ gor[g].res.count = 2
        /\ DOMAIN cache # {}

----------------------------------------------------------------------------
(* iohelper: BufferedWriteCloser, AsyncWriterBuffer and AsyncWriterChannel,
   between one caller and a destination that accepts every write *)

\* the largest buffer size a decorator is built with
MaxBufferSize == 2

\* at most this many Write calls are made on a decorator
MaxBufWrites == 3

BufferSizes == 1..MaxBufferSize

Decorators == {"simple", "async", "chan"}

\* what the caller writes: nothing, one byte, and more than the buffer holds
Payloads == {<<>>, <<"x">>, <<"y", "x">>, <<"x", "y", "y">>}

\* the size of the slice run() reads the shared buffer into
writeBufferSize == 32768

\* the capacity of AsyncWriterChannel.writeChan
maxBuffersOnChannel == 2000

Min(a, b) == IF a < b THEN a ELSE b

\* sync.Cond.Signal and Broadcast with at most one waiter: a goroutine
\* waiting at `from` goes on at `to`, anything else is left as it is
Wake(g, from, to) == IF g.pc = from THEN [g EXCEPT !.pc = to] ELSE g

\* a call returns n and err to a caller that is idle again
Return(n, err) == [At("idle") EXCEPT !.n = n, !.err = err]

\* bufio.Writer.Write of p with buffer buf of the given size, the destination
\* having received rcv: [buffer, received]
RECURSIVE BufioWrite(_, _, _, _)
BufioWrite(buf, rcv, p, size) ==
    IF Len(p) > size - Len(buf)
    THEN IF Len(buf) = 0
         THEN \* large write, empty buffer: written directly
              [buffer |-> <<>>, received |-> rcv \o p]
         ELSE LET n == size - Len(buf)
              IN \* fill the buffer and flush it
                 BufioWrite(<<>>, rcv \o buf \o SubSeq(p, 1, n),
                            SubSeq(p, n + 1, Len(p)), size)
    ELSE [buffer |-> buf \o p, received |-> rcv]

\* the caller calls Write(data)
WriteCall(data) ==
    /\ awCaller.pc = "idle"
    /\ Len(payloads) < MaxBufWrites
    /\ awCaller' = [At("write") EXCEPT !.data = data]
    /\ payloads' = Append(payloads, data)
    /\ UNCHANGED <<aw, awRun, dest>>

\* the caller calls Close()
CloseCall ==
    /\ awCaller.pc = "idle"
    /\ awCaller' = At("close")
    /\ UNCHANGED <<aw, awRun, dest, payloads>>

\* bufio.Writer.Write of p fails: the writer holds an error of an earlier
\* write (aw.writeErr stands for bufio.Writer.err), or p does not fit in the
\* buffer and the write to the destination it takes fails
BufioFails(a, d, p) ==
    \/ a.writeErr # <<>>
    \/ d.broken /\ Len(p) > a.maxSize - Len(a.buffer)

\* bufio.Writer.Flush fails: the writer holds an error of an earlier write,
\* or there is something buffered and the write to the destination fails
FlushFails(a, d) ==
    \/ a.writeErr # <<>>
    \/ d.broken /\ a.buffer # <<>>

\* BufferedWriteCloser.Write (bufio.Writer.Write)
BufferedWrite ==
    /\ aw.kind = "simple"
    /\ awCaller.pc = "write"
    /\ ~BufioFails(aw, dest, awCaller.data)
    /\ LET w == BufioWrite(aw.buffer, dest.received, awCaller.data, aw.maxSize)
       IN /\ aw' = [aw EXCEPT !.buffer = w.buffer]
          /\ dest' = [dest EXCEPT !.received = w.received]
    /\ awCaller' = Return(Len(awCaller.data), "nil")
    /\ UNCHANGED <<awRun, payloads>>

\* BufferedWriteCloser.Close: Flush, then Close of the destination
BufferedClose ==
    /\ aw.kind = "simple"
    /\ awCaller.pc = "close"
    /\ ~FlushFails(aw, dest)
    /\ aw' = [aw EXCEPT !.buffer = <<>>]
    /\ dest' = [dest EXCEPT !.received = @ \o aw.buffer, !.closed = TRUE]
    /\ awCaller' = At("closed")
    /\ UNCHANGED <<awRun, payloads>>

\* a room computed as if the shared buffer were empty
availableOfEmptyBuffer(a) == a.maxSize

\* AsyncWriterBuffer.Write: the room left in the shared buffer
available(a) == a.maxSize - Len(a.buffer)

\* the loop of AsyncWriterBuffer.Write, from the caller's position until it
\* returns or waits on bufferRead; bufferMu is held all along
WriteLoop ==
    LET data == awCaller.data
        left == Len(data) - awCaller.written
        n == IF aw.closed THEN 0 ELSE Min(available(aw), left)
        written == awCaller.written + n
    IN /\ aw' = [aw EXCEPT !.buffer = @ \o SubSeq(data, awCaller.written + 1, written)]
       /\ awRun' = IF n > 0 THEN Wake(awRun, "waitWrite", "nextRead") ELSE awRun
       /\ awCaller' = IF aw.closed \/ written >= Len(data)
                      THEN Return(written, "nil")
                      ELSE [awCaller EXCEPT !.pc = "waitRead", !.written = written]
       /\ UNCHANGED <<dest, payloads>>

\* AsyncWriterBuffer.Write, from its entry
AsyncWriterBufferWrite ==
    /\ aw.kind = "async"
    /\ awCaller.pc = "write"
    /\ IF aw.closed
       THEN /\ awCaller' = Return(0, "ErrClosed")
            /\ UNCHANGED <<aw, awRun, dest, payloads>>
       ELSE IF aw.writeErr # <<>>
       THEN /\ awCaller' = Return(0, Head(aw.writeErr))
            /\ aw' = [aw EXCEPT !.writeErr = <<>>]
            /\ UNCHANGED <<awRun, dest, payloads>>
       ELSE WriteLoop

\* AsyncWriterBuffer.Write, going on after bufferRead.Wait()
AsyncWriterBufferWriteAgain ==
    /\ aw.kind = "async"
    /\ awCaller.pc = "loop"
    /\ WriteLoop

\* a nextRead that takes the stream as ended once it is closed
NextReadIsEOFOnceClosed(a) == a.closed \/ a.buffer = <<>>

\* nextRead finds nothing more to read
NextReadIsEOF(a) == a.buffer = <<>>

\* AsyncWriterBuffer.nextRead, from run(): waits on bufferWrite, or reads the
\* shared buffer and signals bufferRead
nextRead ==
    /\ aw.kind = "async"
    /\ awRun.pc = "nextRead"
    /\ IF ~aw.closed /\ aw.buffer = <<>>
       THEN /\ awRun' = [awRun EXCEPT !.pc = "waitWrite"]
            /\ UNCHANGED <<aw, awCaller>>
       ELSE /\ awCaller' = Wake(awCaller, "waitRead", "loop")
            /\ IF NextReadIsEOF(aw)
               THEN /\ awRun' = At("close")
                    /\ UNCHANGED aw
               ELSE LET n == Min(Len(aw.buffer), writeBufferSize)
                    IN /\ awRun' = [At("dstWrite") EXCEPT !.data = SubSeq(aw.buffer, 1, n),
                                                          !.n = n]
                       /\ aw' = [aw EXCEPT !.buffer = SubSeq(@, n + 1, Len(@))]
    /\ UNCHANGED <<dest, payloads>>

\* AsyncWriterBuffer.run: what was read goes to the destination
AsyncRunWrite ==
    /\ aw.kind = "async"
    /\ awRun.pc = "dstWrite"
    /\ ~dest.broken
    /\ dest' = [dest EXCEPT !.received = @ \o awRun.data]
    /\ awRun' = At("nextRead")
    /\ UNCHANGED <<aw, awCaller, payloads>>

\* AsyncWriterBuffer.run after its loop: closes the destination, then offers
\* the result on closeErr
AsyncRunClose ==
    /\ aw.kind = "async"
    /\ awRun.pc = "close"
    /\ dest' = [dest EXCEPT !.closed = TRUE]
    /\ awRun' = At("closeErr")
    /\ UNCHANGED <<aw, awCaller, payloads>>

\* AsyncWriterBuffer.closeAsync, from Close
closeAsync ==
    /\ aw.kind = "async"
    /\ awCaller.pc = "close"
    /\ IF aw.closed
       THEN /\ awCaller' = Return(0, "ErrClosed")
            /\ UNCHANGED <<aw, awRun>>
       ELSE /\ aw' = [aw EXCEPT !.closed = TRUE]
            /\ awRun' = Wake(awRun, "waitWrite", "nextRead")
            /\ awCaller' = At("closeWait")
    /\ UNCHANGED <<dest, payloads>>

\* AsyncWriterBuffer.Close receives from closeErr and returns nil
AsyncCloseReturn ==
    /\ aw.kind = "async"
    /\ awCaller.pc = "closeWait"
    /\ awRun.pc = "closeErr"
    /\ awCaller' = At("closed")
    /\ awRun' = At("done")
    /\ UNCHANGED <<aw, dest, payloads>>

\* AsyncWriterChannel.Write up to the call of addToChan
AsyncWriterChannelWrite ==
    /\ aw.kind = "chan"
    /\ awCaller.pc = "write"
    /\ IF aw.writeErr # <<>>
       THEN /\ awCaller' = Return(0, Head(aw.writeErr))
            /\ aw' = [aw EXCEPT !.writeErr = <<>>]
       ELSE /\ awCaller' = [awCaller EXCEPT !.pc = "addToChan"]
            /\ UNCHANGED aw
    /\ UNCHANGED <<awRun, dest, payloads>>

\* AsyncWriterChannel.addToChan, from its entry or after bufferSizeHigh.Wait(),
\* and the return of Write when the channel has room for the buffer
addToChan ==
    /\ aw.kind = "chan"
    /\ awCaller.pc = "addToChan"
    /\ IF ~aw.closed /\ aw.bufferSize > aw.maxSize
       THEN /\ awCaller' = [awCaller EXCEPT !.pc = "waitHigh"]
            /\ UNCHANGED aw
       ELSE IF Len(aw.writeChan) < maxBuffersOnChannel
       THEN /\ aw' = [aw EXCEPT !.bufferSize = @ + Len(awCaller.data),
                                !.writeChan = Append(@, awCaller.data)]
            /\ awCaller' = Return(Len(awCaller.data), "nil")
       ELSE /\ aw' = [aw EXCEPT !.bufferSize = @ + Len(awCaller.data)]
            /\ awCaller' = [awCaller EXCEPT !.pc = "send"]
    /\ UNCHANGED <<awRun, dest, payloads>>

\* AsyncWriterChannel.addToChan: the send on writeChan, which waited for room
\* on the channel with bufferSizeMu held, and the return of Write
ChanSend ==
    /\ aw.kind = "chan"
    /\ awCaller.pc = "send"
    /\ Len(aw.writeChan) < maxBuffersOnChannel
    /\ aw' = [aw EXCEPT !.writeChan = Append(@, awCaller.data)]
    /\ awCaller' = Return(Len(awCaller.data), "nil")
    /\ UNCHANGED <<awRun, dest, payloads>>

\* AsyncWriterChannel.run: the range over writeChan takes a buffer, or ends
ChanRecv ==
    /\ aw.kind = "chan"
    /\ awRun.pc = "recv"
    /\ IF aw.writeChan # <<>>
       THEN /\ awRun' = [At("account") EXCEPT !.data = Head(aw.writeChan)]
            /\ aw' = [aw EXCEPT !.writeChan = Tail(@)]
       ELSE /\ aw.chanClosed
            /\ awRun' = At("writeEnd")
            /\ UNCHANGED aw
    /\ UNCHANGED <<awCaller, dest, payloads>>

\* AsyncWriterChannel.run: bufferSize is lowered and bufferSizeHigh signalled,
\* under bufferSizeMu, which a sender waiting for room on the channel holds
ChanAccount ==
    /\ aw.kind = "chan"
    /\ awRun.pc = "account"
    /\ awCaller.pc # "send"
    /\ aw' = [aw EXCEPT !.bufferSize = @ - Len(awRun.data)]
    /\ awCaller' = Wake(awCaller, "waitHigh", "addToChan")
    /\ awRun' = [awRun EXCEPT !.pc = "dstWrite"]
    /\ UNCHANGED <<dest, payloads>>

\* AsyncWriterChannel.run: the buffer goes to the destination
ChanRunWrite ==
    /\ aw.kind = "chan"
    /\ awRun.pc = "dstWrite"
    /\ ~dest.broken
    /\ dest' = [dest EXCEPT !.received = @ \o awRun.data]
    /\ awRun' = At("recv")
    /\ UNCHANGED <<aw, awCaller, payloads>>

\* AsyncWriterChannel.Close: close(writeChan)
ChanClose ==
    /\ aw.kind = "chan"
    /\ awCaller.pc = "close"
    /\ aw' = [aw EXCEPT !.chanClosed = TRUE]
    /\ awCaller' = At("closeWait")
    /\ UNCHANGED <<awRun, dest, payloads>>

\* AsyncWriterChannel.Close receives from writeEnd, closes the destination
\* and returns
ChanCloseReturn ==
    /\ aw.kind = "chan"
    /\ awCaller.pc = "closeWait"
    /\ awRun.pc = "writeEnd"
    /\ dest' = [dest EXCEPT !.closed = TRUE]
    /\ awCaller' = At("closed")
    /\ awRun' = At("done")
    /\ UNCHANGED <<aw, payloads>>

\* the goroutine the constructor starts
RunOf(kind) ==
    IF kind = "async" THEN At("nextRead")
    ELSE IF kind = "chan" THEN At("recv") ELSE At("none")

InitBuf ==
    /\ InitFS
    /\ ~TrashForDelete
    /\ WriteBufferType = ""
    /\ WriteBufferSize = 0
    /\ NoStream
    /\ NoCacheUse
    /\ NoWrap
    /\ \E kind \in Decorators, size \in BufferSizes :
          /\ aw = NewWriter(kind, size)
          /\ awRun = RunOf(kind)
    /\ awCaller = At("idle")
    /\ dest = NewDest
    /\ payloads = <<>>

NextBuf ==
    \/ \E data \in Payloads :
          WriteCall(data) /\ UNCHANGED <<fsVars, cfgVars, streamVars, cacheVars, wrapVars>>
    \/ CloseCall /\ UNCHANGED <<fsVars, cfgVars, streamVars, cacheVars, wrapVars>>
    \/ BufferedWrite /\ UNCHANGED <<fsVars, cfgVars, streamVars, cacheVars, wrapVars>>
    \/ BufferedClose /\ UNCHANGED <<fsVars, cfgVars, streamVars, cacheVars, wrapVars>>
    \/ AsyncWriterBufferWrite /\ UNCHANGED <<fsVars, cfgVars, streamVars, cacheVars, wrapVars>>
    \/ AsyncWriterBufferWriteAgain /\ UNCHANGED <<fsVars, cfgVars, streamVars, cacheVars, wrapVars>>
    \/ nextRead /\ UNCHANGED <<fsVars, cfgVars, streamVars, cacheVars, wrapVars>>
    \/ AsyncRunWrite /\ UNCHANGED <<fsVars, cfgVars, streamVars, cacheVars, wrapVars>>
    \/ AsyncRunClose /\ UNCHANGED <<fsVars, cfgVars, streamVars, cacheVars, wrapVars>>
    \/ closeAsync /\ UNCHANGED <<fsVars, cfgVars, streamVars, cacheVars, wrapVars>>
    \/ AsyncCloseReturn /\ UNCHANGED <<fsVars, cfgVars, streamVars, cacheVars, wrapVars>>
    \/ AsyncWriterChannelWrite /\ UNCHANGED <<fsVars, cfgVars, streamVars, cacheVars, wrapVars>>
    \/ addToChan /\ UNCHANGED <<fsVars, cfgVars, streamVars, cacheVars, wrapVars>>
    \/ ChanRecv /\ UNCHANGED <<fsVars, cfgVars, streamVars, cacheVars, wrapVars>>
    \/ ChanAccount /\ UNCHANGED <<fsVars, cfgVars, streamVars, cacheVars, wrapVars>>
    \/ ChanRunWrite /\ UNCHANGED <<fsVars, cfgVars, streamVars, cacheVars, wrapVars>>
    \/ ChanClose /\ UNCHANGED <<fsVars, cfgVars, streamVars, cacheVars, wrapVars>>
    \/ ChanCloseReturn /\ UNCHANGED <<fsVars, cfgVars, streamVars, cacheVars, wrapVars>>

SpecBuf == InitBuf /\ [][NextBuf]_vars

----------------------------------------------------------------------------
(* C19: what the destination of a decorator receives *)

RECURSIVE Concat(_)
Concat(ps) == IF ps = <<>> THEN <<>> ELSE Head(ps) \o Concat(Tail(ps))

\* C19: with any of the three decorators and any buffer size, when Close has
\* returned the destination has received exactly the payloads of the Write
\* calls, concatenated in call order
C19_DestinationReceivesAll ==
    awCaller.pc = "closed" => dest.received = Concat(payloads)

\* Close has returned on an AsyncWriterBuffer of size 1 after an empty payload
\* and one of three bytes were written
C19_Witness ==
    /\ awCaller.pc = "closed"
    /\ aw.kind = "async"
    /\ aw.maxSize = 1
    /\ \E i, j \in 1..Len(payloads) : payloads[i] = <<>> /\ Len(payloads[j]) = 3

----------------------------------------------------------------------------
(* C20: the write stream of a handle *)

\* the handle was opened for writing
OpenedForWriting(f) == f.open /\ f.streamWriteEnd # "nil"

\* the configuration asks for a decorator around the pipe's writer
Buffered == WriteBufferSize # 0 /\ WriteBufferType \in {"simple", "async", "chan"}

\* the configuration asks for no buffer
Unbuffered == WriteBufferSize = 0 \/ WriteBufferType = ""

\* the stream the configuration asks for
ConfiguredStream ==
    IF Unbuffered THEN "PipeWriter"
    ELSE IF WriteBufferType = "simple" THEN "BufferedWriteCloser"
    ELSE IF WriteBufferType = "async" THEN "AsyncWriterBuffer"
    ELSE "AsyncWriterChannel"

\* C20: the write stream of a handle opened for writing is the decorator of the
\* configured type when the size is not zero and the type is simple, async or
\* chan, and the pipe's writer itself when the type is none or the size zero
C20_WriteStreamAsConfigured ==
    (OpenedForWriting(File) /\ (Buffered \/ Unbuffered))
        => File.streamWrite = ConfiguredStream

\* C20, the part for type none or size zero
C20_RawWriterWhenUnbuffered ==
    (OpenedForWriting(File) /\ Unbuffered) => File.streamWrite = "PipeWriter"

\* a handle is open for writing under a configuration that asks for no buffer
C20_UnbufferedWitness ==
    OpenedForWriting(File) /\ Unbuffered /\ WriteBufferType = "simple"

----------------------------------------------------------------------------
(* C21 - C24: opening for writing, Create, and the two modes of a handle *)

\* the configuration names a buffer type the driver does not know
UnknownBuffer ==
    WriteBufferSize # 0 /\ WriteBufferType \notin {"", "simple", "async", "chan"}

\* C21: with a non-zero WriteBufferSize and a WriteBufferType that is not
\* recognised, an OpenFile that reaches openFileWrite returns
\* ErrUnknownBufferType and no handle
C21_UnknownBufferTypeRefused ==
    (UnknownBuffer /\ ret.op = "OpenFile" /\ File.streamWriteEnd # "nil")
        => (ret.err = "UnknownBufferType" /\ ~File.open)

\* C21 seen from the caller: under such a configuration no OpenFile returns
\* an open handle that Write panics on
C21_NoHandleWithoutStream ==
    UnknownBuffer => caller.pc # "panic"


\* File.Write of no byte on the handle OpenFile returned without O_WRONLY:
\* ErrReadOnly on a read handle, a nil stream on the handle of a directory
WriteNothing(file) == IF file.isDir THEN "panic" ELSE "ReadOnly"

\* GDriver.Create: [err, handle, st]; OpenFile is called with O_CREATE alone,
\* and when the empty Write fails it is the error of OpenFile, nil, that is
\* returned beside the nil handle
CreateRes(st, name) ==
    LET r == OpenFileRes(st, name, {"O_CREATE"})
    IN IF r.err # "nil"
       THEN [err |-> r.err, handle |-> "nil", st |-> r.st]
       ELSE IF WriteNothing(r.file) = "panic"
       THEN [err |-> "panic", handle |-> "nil", st |-> r.st]
       ELSE [err |-> "nil", handle |-> "nil", st |-> r.st]

\* C22: Create(name) of a name that does not exist in an existing directory
\* creates the file and returns a handle and a nil error; whatever the name,
\* a nil handle comes with an error
C22_CreateCreates ==
    \A p \in PathInputs :
        LET c == CreateRes(Cur, p)
        IN /\ (/\ NbParts(p) = 1
               /\ TrueStat(Cur, p).err = "NotExist"
               /\ Cardinality(DOMAIN files) < MaxFiles)
              => /\ c.err = "nil"
                 /\ c.handle # "nil"
                 /\ TrueStat(c.st, p).err = "nil"
           /\ c.handle = "nil" => c.err # "nil"

\* C22, second part alone: a nil handle comes with an error
C22_NilHandleHasError ==
    \A p \in PathInputs : CreateRes(Cur, p).handle = "nil" => CreateRes(Cur, p).err # "nil"


\* the handle is open for reading
OpenedForReading(f) == f.open /\ f.streamRead # "nil"

\* a Read on a handle opened for writing
ReadOnWriteHandle ==
    OpenedForWriting(File) /\ \E len \in 1..MaxLen, n \in 1..MaxLen : Read(len, n)

\* a Write on a handle opened for reading
WriteOnReadHandle ==
    OpenedForReading(File) /\ \E p \in Chunks : Write(p)

\* the call moved no byte and left the handle, its streams and its offset alone
NothingTransferred ==
    /\ ret'.n = 0
    /\ File' = File
    /\ pipe' = pipe
    /\ body' = body
    /\ upload' = upload
    /\ hist'.readBack = hist.readBack
    /\ hist'.written = hist.written

\* C23: Read on a handle opened for writing returns ErrWriteOnly, Write on a
\* handle opened for reading returns ErrReadOnly; neither moves a byte nor
\* changes the handle's stream or offset, and neither error is the stream
\* error DriveStreamError
C23_ModesAreExclusive ==
    [][/\ ReadOnWriteHandle =>
             (ret'.op = "Read" /\ ret'.err = "WriteOnly" /\ NothingTransferred)
       /\ WriteOnReadHandle =>
             (ret'.op = "Write" /\ ret'.err = "ReadOnly" /\ NothingTransferred)]_vars

\* C23 under the configurations in which the buffer type is a known one
C23_ModesAreExclusiveKnownBuffer ==
    [][~UnknownBuffer =>
         /\ ReadOnWriteHandle =>
               (ret'.op = "Read" /\ ret'.err = "WriteOnly" /\ NothingTransferred)
         /\ WriteOnReadHandle =>
               (ret'.op = "Write" /\ ret'.err = "ReadOnly" /\ NothingTransferred)]_vars

\* Read has returned ErrWriteOnly on a write handle that bytes went through
C23_ReadWitness ==
    /\ OpenedForWriting(File) /\ ret.op = "Read" /\ ret.err = "WriteOnly"
    /\ hist.written # <<>>

\* Write has returned ErrReadOnly on a read handle that was read from
C23_WriteWitness ==
    /\ OpenedForReading(File) /\ ret.op = "Write" /\ ret.err = "ReadOnly"
    /\ File.streamOffset > 0


----------------------------------------------------------------------------
(* File.Seek on the handle of the stream specification *)

\* at most this many Seek calls are made on one handle
MaxSeeks == 2

Whences == {"SeekStart", "SeekCurrent", "SeekEnd"}

\* the offsets handed to Seek
SeekOffsets == (0 - 1)..(MaxLen + 1)

\* File.seekRead: the byte the new stream starts at
startByte(f, size, offset, whence) ==
    IF whence = "SeekStart" THEN offset
    ELSE IF whence = "SeekCurrent" THEN f.streamOffset + offset
    ELSE size - offset

\* a getFileReader that never asks for a range
getFileReaderNoRange(offset) == 0

\* GDriver.getFileReader: the first byte asked of the store, the Range header
\* being set for a positive offset only
getFileReaderRange(offset) == IF offset > 0 THEN offset ELSE 0

\* the store has no byte at the start of the range asked for
Unsatisfiable(F, id, offset) ==
    getFileReaderRange(offset) > 0 /\ getFileReaderRange(offset) >= Len(F[id].content)

\* File.Seek, up to the Close of the previous stream in seekRead
Seek(offset, whence) ==
    /\ caller.pc = "idle"
    /\ File.open
    /\ hist.nbSeeks < MaxSeeks
    /\ IF File.streamWrite # "nil"
       THEN /\ ret' = Returned("Seek", Mode(File), 0, "NotImplemented")
            /\ hist' = [hist EXCEPT !.nbSeeks = @ + 1]
            /\ UNCHANGED <<File, body, caller>>
       ELSE IF File.streamRead = "nil"
       THEN /\ ret' = Returned("Seek", Mode(File), 0, "FileClosed")
            /\ hist' = [hist EXCEPT !.nbSeeks = @ + 1]
            /\ UNCHANGED <<File, body, caller>>
       ELSE LET start == startByte(File, Len(files[File.id].content), offset, whence)
            IN /\ File' = [File EXCEPT !.streamRead = "nil"]
               /\ body' = NoBody
               /\ hist' = [hist EXCEPT !.nbSeeks = @ + 1, !.sought = FALSE,
                                       !.seekAt = start]
               /\ IF start < 0
                  THEN /\ ret' = Returned("Seek", "read", start, "InvalidSeek")
                       /\ UNCHANGED caller
                  ELSE /\ caller' = [pc |-> "Seek", p |-> <<whence>>]
                       /\ UNCHANGED ret
    /\ UNCHANGED <<fsVars, cfgVars, libVars, pipe, upload>>

\* File.seekRead, the getFileReader at the new offset; the store may refuse
\* a range that starts at or after the end of the content
SeekReopen(served) ==
    /\ caller.pc = "Seek"
    /\ served \/ Unsatisfiable(files, File.id, hist.seekAt)
    /\ caller' = Idle
    /\ IF served /\ CanDownload(files, File.id)
       THEN /\ File' = [File EXCEPT !.streamRead = "Body"]
            /\ body' = [data |-> FilesDownload(files, File.id,
                                               getFileReaderRange(hist.seekAt)),
                        pos |-> 0]
            /\ ret' = Returned("Seek", "read", hist.seekAt, "nil")
            /\ hist' = [hist EXCEPT !.sought = (Head(caller.p) = "SeekStart"),
                                    !.readBack = <<>>]
       ELSE /\ ret' = Returned("Seek", "none", hist.seekAt, "DriveAPICall")
            /\ UNCHANGED <<File, body, hist>>
    /\ UNCHANGED <<fsVars, cfgVars, libVars, pipe, upload>>

InitSeek ==
    /\ InitFS
    /\ ~TrashForDelete
    /\ WriteBufferType = ""
    /\ WriteBufferSize = 0
    /\ NoStream
    /\ NoLib

NextSeek ==
    \/ NextStream
    \/ \E offset \in SeekOffsets, whence \in Whences : Seek(offset, whence)
    \/ \E served \in BOOLEAN : SeekReopen(served)

SpecSeek == InitSeek /\ [][NextSeek]_vars

\* C24: on a read handle over content C, once Seek(o, SeekStart) has succeeded
\* with 0 <= o <= len(C), reading up to EOF returns C[o:], whatever was read
\* before the seek; and the previous download stream is closed when the new
\* one is asked for
C24_SeekThenReadAll ==
    LET C == files[File.id].content
    IN /\ (/\ OpenedForReading(File) /\ hist.sought /\ hist.seekAt <= Len(C)
           /\ ret.op = "Read" /\ ret.err = "EOF")
          => hist.readBack = SubSeq(C, hist.seekAt + 1, Len(C))
       /\ caller.pc = "Seek" => (File.streamRead = "nil" /\ body = NoBody)

\* after both bytes were read, Seek(1, SeekStart) succeeded and the reads up
\* to EOF returned the second byte
C24_Witness ==
    /\ OpenedForReading(File) /\ hist.sought /\ hist.seekAt = 1
    /\ ret.op = "Read" /\ ret.err = "EOF"
    /\ Len(hist.readBack) = 1
    /\ File.streamOffset = 3


----------------------------------------------------------------------------
(* C25 - C26: the root pointer, and MkdirAll against a failing store *)

\* what Stat of p would return from the absolute remote root, against the
\* store itself
StatFromAbsRoot(st, p) == TrueStat([st EXCEPT !.root = AbsRootID], p)

\* C25: SetRootDirectory(p) resolves p from the absolute remote root whatever
\* the current root is. When p is a directory there, the call succeeds, the
\* root becomes that node, and a later Stat(q) finds what p/q is from the
\* absolute root; otherwise the call returns an error and the root stays
C25_SetRootDirectory ==
    \A p \in PathInputs :
        LET r == SetRootDirectoryRes(Cur, p)
            t == StatFromAbsRoot(Cur, p)
        IN /\ r.st.files = files
           /\ IF t.err = "nil" /\ t.file.isDir
              THEN /\ r.err = "nil"
                   /\ r.st.root = t.file.id
                   /\ \A q \in PathInputs :
                         LET s == TrueStat(r.st, q)
                             u == StatFromAbsRoot(Cur, p \o <<"/">> \o q)
                         IN s.err = u.err /\ s.file.id = u.file.id
              ELSE r.err # "nil" /\ r.st.root = rootNode

\* C25, restricted to the states in which no cached lookup is stale
C25_SetRootDirectoryCoherent == CacheCoherent => C25_SetRootDirectory

\* the root was moved to a directory and then, from there, to another one
\* that is no child of it
C25_Witness ==
    /\ last.op = "SetRootDirectory" /\ last.err = "nil"
    /\ rootNode # AbsRootID
    /\ \E p \in PathInputs :
          /\ StatFromAbsRoot(Cur, p).err = "nil"
          /\ StatFromAbsRoot(Cur, p).file.isDir
          /\ StatFromAbsRoot(Cur, p).file.id \notin {rootNode, AbsRootID}
          /\ TrueStat(Cur, p).err = "NotExist"


\* which store call of MkdirAll fails
StoreFailures == {"lookup", "create"}

\* GDriver.makeDirectoryByParts when the store fails in iteration i, in the
\* lookup of pathParts[i] or in its createFile: [failed, res]; failed tells
\* whether the loop gets to that store call at all (a cached lookup asks the
\* store nothing, an existing entry is not created)
makeDirectoryByPartsFailing(st, pathParts, i, kind) ==
    LET pre == makeDirectoryByParts(st, SubSeq(pathParts, 1, i - 1))
        key == cacheKey(pre.file.id, pathParts[i], listFields)
        r == getFileByFolderAndName(pre.st.cache, pre.st.files, pre.st.use,
                                    pre.file.id, pathParts[i], listFields)
    IN IF pre.err # "nil" \/ pre.full
       THEN [failed |-> FALSE, res |-> pre]
       ELSE IF kind = "lookup"
       THEN [failed |-> key \notin DOMAIN pre.st.cache,
             res |-> Res("DriveAPICall", <<>>, NoFile, pre.st,
                         pre.creates, 0, FALSE)]
       ELSE [failed |-> r.files = {} /\ pre.file.isDir,
             res |-> Res("DriveAPICall", <<>>, NoFile, Looked(pre.st, r.cache),
                         pre.creates + 1, 0, FALSE)]

\* GDriver.MkdirAll with a store failure in iteration i
MkdirAllFailing(st, p, i, kind) == makeDirectoryByPartsFailing(st, FieldsFunc(p), i, kind)

\* MkdirAll(p) while the store fails
MkdirAllFails(p, i, kind) ==
    /\ i <= NbParts(p)
    /\ MkdirAllFailing(Cur, p, i, kind).failed
    /\ Call("MkdirAll", MkdirAllFailing(Cur, p, i, kind).res)

NextFault ==
    \/ NextFS
    \/ \E p \in PathInputs, i \in 1..2, kind \in StoreFailures : MkdirAllFails(p, i, kind)

\* the filesystem specification with a store that can fail during MkdirAll
SpecFault == Init /\ [][NextFault]_vars

\* C26: when the store fails in iteration i of a MkdirAll(P) that a working
\* store would complete, MkdirAll returns a store-call error, the segments
\* before i are in place (made as directories where they were missing), and a
\* retry of MkdirAll(P) with a working store succeeds and leaves the tree the
\* undisturbed call would have left, so without a duplicate
C26_PartialMkdirAllThenRetry ==
    \A p \in PathInputs : \A i \in 1..NbParts(p) : \A kind \in StoreFailures :
        LET f == MkdirAllFailing(Cur, p, i, kind)
        IN (/\ f.failed
            /\ MkdirAllRes(Cur, p).err = "nil"
            /\ ~MkdirAllRes(Cur, p).full)
           => /\ f.res.err = "DriveAPICall"
              /\ \A j \in 1..(i - 1) :
                    /\ TrueStat(f.res.st, PrefixPath(p, j)).err = "nil"
                    /\ TrueStat(Cur, PrefixPath(p, j)).err # "nil"
                          => TrueStat(f.res.st, PrefixPath(p, j)).file.isDir
              /\ MkdirAllRes(f.res.st, p).err = "nil"
              /\ MkdirAllRes(f.res.st, p).st.files = MkdirAllRes(Cur, p).st.files
              /\ NamesUnique(files) => NamesUnique(MkdirAllRes(f.res.st, p).st.files)

\* C26, restricted to the states in which no cached lookup is stale
C26_PartialMkdirAllThenRetryCoherent == CacheCoherent => C26_PartialMkdirAllThenRetry

\* a MkdirAll has failed in its second iteration, the directory of the first
\* one was made by it and is there, and the second is not
C26_Witness ==
    /\ last.op = "MkdirAll" /\ last.err = "DriveAPICall"
    /\ nbCalls = 1
    /\ \E x \in NameChars :
          /\ TrueStat(Cur, <<x>>).err = "nil"
          /\ TrueStat(Cur, <<x>>).file.isDir
          /\ Cardinality(DOMAIN files) = 2


----------------------------------------------------------------------------
(* C27 - C30: the lookup cache against the store *)

\* C27: with the cache in use, every cached child-lookup result is what the
\* store would return now for the same parent, name and fields; no driver
\* mutation leaves a cached result that it changed
C27_CacheIsCoherent == UseCache => CacheCoherent

\* C27, for the mutations other than Rename: a create, a delete, a trash or
\* the opening of a file leaves no cached result that it changed
C27_CoherentButForRename ==
    [][(CacheCoherent /\ last'.op # "Rename") => CacheCoherent']_vars

\* a lookup is cached, and a mutation has since gone through the cache's
\* eviction and left what is cached true
C27_Witness ==
    /\ UseCache /\ CacheCoherent
    /\ DOMAIN cache # {}
    /\ last.op \in {"Remove", "MkdirAll", "trashPath"} /\ last.err = "nil"
    /\ nbCalls >= 2


\* the cache keys of the lookups under one parent
KeyedUnder(c, folderID) == {k \in DOMAIN c : HasPrefix(k, folderID \o <<"-">>)}

\* C28: after a successful Rename, the cache holds no entry keyed under the
\* parent the entry was moved from and none keyed under the parent it was
\* moved to
C28_RenameEvictsBothParents ==
    \A oldPath \in PathInputs : \A newPath \in PathInputs :
        LET r == RenameRes(Cur, oldPath, newPath)
        IN (r.err = "nil" /\ ~r.full /\ r.updates = 1)
           => /\ KeyedUnder(r.st.cache, files[r.file.id].parent) = {}
              /\ KeyedUnder(r.st.cache, r.st.files[r.file.id].parent) = {}

\* a Rename has succeeded and lookups are cached
C28_Witness == last.op = "Rename" /\ last.err = "nil" /\ DOMAIN cache # {}


\* the identifiers a store call can name: the root, those handed out, and
\* those still to be handed out (no entry has them: the store refuses)
StoreIDs == {AbsRootID} \cup {IdPool[i] : i \in 1..MaxFiles}

\* the parent a cache key is keyed under starts with folderID
UnderParentStartingWith(k, folderID) == HasPrefix(k, folderID)

\* C29: a successful APIWrapper.createFile under parent P leaves no cache
\* entry keyed under P and leaves unchanged every entry keyed under a parent
\* whose identifier does not start with P; a failed one leaves the cache as
\* it was
C29_CreateEvictsParent ==
    nbCreated < MaxFiles =>
        \A folderID \in StoreIDs : \A x \in NameChars : \A dir \in BOOLEAN :
            LET r == wrapperCreateFile(cache, files, IdPool[nbCreated + 1],
                                       folderID, <<x>>, dir)
            IN IF r.err = "nil"
               THEN /\ KeyedUnder(r.cache, folderID) = {}
                    /\ \A k \in DOMAIN cache :
                          ~UnderParentStartingWith(k, folderID)
                              => k \in DOMAIN r.cache /\ r.cache[k] = cache[k]
               ELSE r.cache = cache

\* a MkdirAll has just made a directory under a directory that is not the
\* root: nothing is cached under that parent, while the lookup that found the
\* parent, keyed under the root, is still cached
C29_Witness ==
    /\ last.op = "MkdirAll" /\ last.err = "nil"
    /\ nbCreated >= 2
    /\ \E i \in DOMAIN files \ {AbsRootID} :
          /\ files[i].parent # AbsRootID
          /\ KeyedUnder(cache, files[i].parent) = {}
          /\ KeyedUnder(cache, AbsRootID) # {}


\* the driver calls that end with APIWrapper.deleteFile
DeleteCalls(st, p) ==
    {RemoveRes(st, p), RemoveAllRes(st, p), DeleteDirectoryRes(st, p), trashPathRes(st, p)}

\* the cache after APIWrapper.deleteFile of entry id: empty for a directory,
\* without the entries keyed under its parent for a file
EvictedFor(c, F, id) ==
    IF F[id].isDir THEN c = EmptyCache ELSE KeyedUnder(c, F[id].parent) = {}

\* C30: a successful delete or trash through APIWrapper.deleteFile leaves the
\* cache empty when the entry is a directory and without any entry keyed
\* under the entry's parent when it is a file; a failed one removes and
\* changes no cache entry
C30_DeleteEvicts ==
    /\ \A p \in PathInputs : \A r \in DeleteCalls(Cur, p) :
          r.updates = 1 =>
              IF r.err = "nil"
              THEN EvictedFor(r.st.cache, files, r.file.id)
              ELSE \A k \in DOMAIN cache :
                      k \in DOMAIN r.st.cache /\ r.st.cache[k] = cache[k]
    /\ \A id \in StoreIDs : \A dir \in BOOLEAN : \A trash \in BOOLEAN :
          LET d == wrapperDeleteFile(cache, files,
                                     [id |-> id, isDir |-> dir, parents |-> <<>>], trash)
          IN d.err # "nil" => d.cache = cache

\* C30, restricted to the states in which no cached lookup is stale
C30_DeleteEvictsCoherent == CacheCoherent => C30_DeleteEvicts

\* a file has just been removed and no lookup is stale: only directories
\* are left, and lookups are still cached, which the removal of a directory
\* would not have left
C30_Witness ==
    /\ last.op = "Remove" /\ last.err = "nil"
    /\ CacheCoherent
    /\ DOMAIN cache # {}
    /\ \A i \in DOMAIN files : files[i].isDir


----------------------------------------------------------------------------
(* C31 - C32: the read-through cache of child lookups *)

LookupFields == {listFields, defaultFields, renameFields}

\* a lookup right after a successful lookup of the same parent, name and
\* fields calls Files.List zero times and returns the same result; a lookup
\* the store failed leaves the cache as it was, and the next one calls
\* Files.List again
SecondLookupIsCached ==
    UseCache =>
        \A folderID \in StoreIDs : \A x \in NameChars : \A qf \in LookupFields :
            LET r1 == getFileByFolderAndNameCounted(cache, files, UseCache,
                                                    folderID, <<x>>, qf, TRUE)
                r2 == getFileByFolderAndNameCounted(r1.cache, files, UseCache,
                                                    folderID, <<x>>, qf, TRUE)
                rf == getFileByFolderAndNameCounted(cache, files, UseCache,
                                                    folderID, <<x>>, qf, FALSE)
            IN /\ r1.err = "nil"
               /\ r2.err = "nil" /\ r2.nbList = 0 /\ r2.files = r1.files
               /\ rf.err # "nil"
                     => /\ rf.cache = cache
                        /\ getFileByFolderAndNameCounted(rf.cache, files, UseCache,
                                                         folderID, <<x>>, qf, TRUE).nbList = 1

\* a driver call that creates, deletes and trashes nothing keeps every cached
\* result, whatever it changes in the store
CachedResultsStay ==
    (/\ nbCreated' = nbCreated
     /\ DOMAIN files' = DOMAIN files
     /\ \A i \in DOMAIN files : files'[i].trashed = files[i].trashed)
    => \A k \in DOMAIN cache : k \in DOMAIN cache' /\ cache'[k] = cache[k]

MaxWrapperCreates == 2

\* the parents they name: the root, the first entry made, one that is missing
WrapperParents == {AbsRootID, IdPool[1], IdPool[MaxFiles]}

OutsideWrapperUnchanged == UNCHANGED <<rootNode, TrashForDelete, UseCache, nbCalls, last,
                                 cfgVars, streamVars, cacheVars, bufVars>>

\* getFileByFolderAndName up to cache.Get: a hit returns the cached result
LookupGet(folderID, fileName, fields) ==
    /\ wrap.look.pc = "idle"
    /\ wrap' = [wrap EXCEPT !.look =
                  [pc |-> IF cacheKey(folderID, fileName, fields) \in DOMAIN cache
                          THEN "idle" ELSE "list",
                   folderID |-> folderID, fileName |-> fileName, fields |-> fields,
                   fileList |-> IF cacheKey(folderID, fileName, fields) \in DOMAIN cache
                                THEN cache[cacheKey(folderID, fileName, fields)] ELSE {}]]
    /\ UNCHANGED <<files, nbCreated, cache>>
    /\ OutsideWrapperUnchanged

\* _getFileByFolderAndName: Files.List on the store as it is now
LookupList ==
    /\ wrap.look.pc = "list"
    /\ wrap' = [wrap EXCEPT !.look.pc = "set",
                            !.look.fileList =
                                rawGetFileByFolderAndName(files, wrap.look.folderID,
                                                          wrap.look.fileName, wrap.look.fields)]
    /\ UNCHANGED <<files, nbCreated, cache>>
    /\ OutsideWrapperUnchanged

\* the cache.Set of getFileByFolderAndName, and its return
LookupSet ==
    /\ wrap.look.pc = "set"
    /\ cache' = IF UseCache
                THEN CacheSet(cache, cacheKey(wrap.look.folderID, wrap.look.fileName,
                                              wrap.look.fields), wrap.look.fileList)
                ELSE cache
    /\ wrap' = [wrap EXCEPT !.look.pc = "idle"]
    /\ UNCHANGED <<files, nbCreated>>
    /\ OutsideWrapperUnchanged

\* createFile up to call.Do(): Files.Create; a refused create returns
CreateDo(folderID, fileName, dir) ==
    /\ wrap.create.pc = "idle"
    /\ nbCreated < MaxWrapperCreates
    /\ IF CanCreateUnder(files, folderID)
       THEN /\ files' = FilesCreate(files, IdPool[nbCreated + 1], folderID,
                                    sanitizeName(fileName), dir)
            /\ nbCreated' = nbCreated + 1
            /\ wrap' = [wrap EXCEPT !.create = [pc |-> "cleanup", folderID |-> folderID]]
       ELSE UNCHANGED <<files, nbCreated, wrap>>
    /\ UNCHANGED cache
    /\ OutsideWrapperUnchanged

\* the CleanupByPrefix of createFile, and its return
CreateCleanup ==
    /\ wrap.create.pc = "cleanup"
    /\ cache' = CleanupByPrefix(cache, wrap.create.folderID \o <<"-">>)
    /\ wrap' = [wrap EXCEPT !.create.pc = "idle"]
    /\ UNCHANGED <<files, nbCreated>>
    /\ OutsideWrapperUnchanged

InitWrapper ==
    /\ InitFS
    /\ ~TrashForDelete
    /\ WriteBufferType = ""
    /\ WriteBufferSize = 0
    /\ NoStream
    /\ NoLib

NextWrapper ==
    \/ \E folderID \in WrapperParents, x \in NameChars : LookupGet(folderID, <<x>>, listFields)
    \/ LookupList
    \/ LookupSet
    \/ \E folderID \in WrapperParents, x \in NameChars, dir \in BOOLEAN :
          CreateDo(folderID, <<x>>, dir)
    \/ CreateCleanup

\* a lookup and a create running concurrently on one APIWrapper
SpecWrapper == InitWrapper /\ [][NextWrapper]_vars

\* C32: once a child lookup and a create that ran concurrently have both
\* returned, the cache holds no empty result for a parent and name under
\* which the store has an entry, and Stat of an entry the store has under
\* the root succeeds
C32_NoStaleEmptyResult ==
    (wrap.look.pc = "idle" /\ wrap.create.pc = "idle")
    => /\ \A folderID \in StoreIDs : \A x \in NameChars :
             LET key == cacheKey(folderID, <<x>>, listFields)
             IN (key \in DOMAIN cache /\ cache[key] = {})
                => rawGetFileByFolderAndName(files, folderID, <<x>>, listFields) = {}
       /\ \A x \in NameChars :
             TrueStat(Cur, <<x>>).err = "nil" => StatRes(Cur, <<x>>).err = "nil"

\* a lookup that missed the cache and a create of the same name under the
\* same parent are both in flight
C32_Witness ==
    /\ wrap.look.pc = "set" /\ wrap.create.pc = "cleanup"
    /\ wrap.look.folderID = wrap.create.folderID
    /\ wrap.look.fileList = {}
    /\ rawGetFileByFolderAndName(files, wrap.look.folderID, wrap.look.fileName,
                                 listFields) # {}


----------------------------------------------------------------------------
(* C33: a failed upload and the calls on its write handle *)

\* the upload task runs whenever it can: it reads what a Write offers, it
\* ends its request once the writer is closed, and its send on the completion
\* channel meets the receive of a waiting Close; whether the request fails
\* is up to the store
SpecStreamLive ==
    /\ SpecStream
    /\ WF_vars(\E k \in 0..MaxLen : UploadRead(k))
    /\ WF_vars(\E e \in {"nil", "fail"} : UploadDone(e))
    /\ WF_vars(CloseReceive)

\* the upload behind the handle has failed
UploadHasFailed == upload.pc \in {"sending", "done"} /\ upload.err = "fail"

\* C33: once the upload behind a write handle has failed, a Write or a Close
\* the caller is in, or enters later, eventually returns
C33_CallsReturnAfterFailure ==
    [](((caller.pc \in {"Write", "Close"}) /\ UploadHasFailed) => <>(caller.pc = "idle"))

\* C33, for Close alone, and for a Write whose upload has not failed
C33_CloseReturns ==
    /\ (caller.pc = "Close") ~> (caller.pc = "idle")
    /\ (caller.pc = "Write") ~> (caller.pc = "idle" \/ UploadHasFailed)

\* a Write is pending on the pipe and the upload has failed
C33_Witness == caller.pc = "Write" /\ UploadHasFailed /\ ~pipe.rclosed


----------------------------------------------------------------------------
(* C34 - C37: the decorators under load and over a failing destination *)

OutsideBufUnchanged == UNCHANGED <<fsVars, cfgVars, streamVars, cacheVars, wrapVars>>

\* the steps of the goroutine that calls Write and Close, inside a call
BufCallerSteps ==
    /\ \/ BufferedWrite \/ BufferedClose
       \/ AsyncWriterBufferWrite \/ AsyncWriterBufferWriteAgain
       \/ closeAsync \/ AsyncCloseReturn
       \/ AsyncWriterChannelWrite \/ addToChan \/ ChanClose \/ ChanCloseReturn
    /\ OutsideBufUnchanged

\* the steps of the goroutine of run()
BufRunSteps ==
    /\ \/ nextRead \/ AsyncRunWrite \/ AsyncRunClose
       \/ ChanRecv \/ ChanAccount \/ ChanRunWrite
    /\ OutsideBufUnchanged

\* both goroutines run whenever they can
SpecBufLive == SpecBuf /\ WF_vars(BufCallerSteps) /\ WF_vars(BufRunSteps)

\* the caller is inside Write or Close
InCall == awCaller.pc \notin {"idle", "closed"}

\* C34: over a destination that accepts every write, every Write and every
\* Close the caller is in eventually returns, a Write that found the buffer
\* full included, and when Close has returned the destination is closed and
\* has received all that was written
C34_WriteAndCloseReturn ==
    /\ InCall ~> ~InCall
    /\ [](awCaller.pc = "closed" => dest.closed /\ dest.received = Concat(payloads))


(* AsyncWriterChannel with its channel of maxBuffersOnChannel buffers filled *)

\* the caller calls Write with no byte: the history, which is of the bytes
\* written, keeps one empty payload for all these calls
WriteNoByte ==
    /\ awCaller.pc = "idle"
    /\ awCaller' = At("write")
    /\ payloads' = << <<>> >>
    /\ UNCHANGED <<aw, awRun, dest>>

InitChanFull ==
    /\ InitFS
    /\ ~TrashForDelete
    /\ WriteBufferType = ""
    /\ WriteBufferSize = 0
    /\ NoStream
    /\ NoCacheUse
    /\ NoWrap
    /\ aw = NewWriter("chan", 1)
    /\ awRun = RunOf("chan")
    /\ awCaller = At("idle")
    /\ dest = NewDest
    /\ payloads = <<>>

NextChanFull ==
    \/ WriteNoByte /\ OutsideBufUnchanged
    \/ AsyncWriterChannelWrite /\ OutsideBufUnchanged
    \/ addToChan /\ OutsideBufUnchanged
    \/ ChanSend /\ OutsideBufUnchanged
    \/ ChanRecv /\ OutsideBufUnchanged
    \/ ChanAccount /\ OutsideBufUnchanged
    \/ ChanRunWrite /\ OutsideBufUnchanged
    \/ CloseCall /\ OutsideBufUnchanged
    \/ ChanClose /\ OutsideBufUnchanged
    \/ ChanCloseReturn /\ OutsideBufUnchanged

\* an AsyncWriterChannel and a caller that writes as often as it likes, both
\* goroutines running whenever they can
SpecChanFull ==
    /\ InitChanFull /\ [][NextChanFull]_vars
    /\ WF_vars(BufCallerSteps)
    /\ WF_vars(ChanSend /\ OutsideBufUnchanged)
    /\ WF_vars(BufRunSteps)

\* the caller waits for room on the full channel with bufferSizeMu held, and
\* run(), which has taken a buffer off the channel, waits for bufferSizeMu
ChanFullDeadlock ==
    /\ awCaller.pc = "send"
    /\ awRun.pc = "account"
    /\ Len(aw.writeChan) = maxBuffersOnChannel


(* The decorators over a destination that breaks: from then on every write
   to it returns 0 and an error; its Close returns nil, as that of the
   io.PipeWriter the driver hands to the decorators does *)

\* the destination breaks
DestBreaks ==
    /\ aw.kind # "none"
    /\ ~dest.broken /\ ~dest.closed
    /\ dest' = [dest EXCEPT !.broken = TRUE]
    /\ UNCHANGED <<aw, awCaller, awRun, payloads>>

\* BufferedWriteCloser.Write returns the error of bufio.Writer.Write, which
\* the writer keeps
BufferedWriteFails ==
    /\ aw.kind = "simple"
    /\ awCaller.pc = "write"
    /\ BufioFails(aw, dest, awCaller.data)
    /\ aw' = [aw EXCEPT !.writeErr = <<"fail">>]
    /\ awCaller' = Return(0, "fail")
    /\ UNCHANGED <<awRun, dest, payloads>>

\* BufferedWriteCloser.Close returns the error of Flush, wrapped, and leaves
\* the destination open
BufferedCloseFails ==
    /\ aw.kind = "simple"
    /\ awCaller.pc = "close"
    /\ FlushFails(aw, dest)
    /\ aw' = [aw EXCEPT !.writeErr = <<"fail">>]
    /\ awCaller' = Return(0, "flush")
    /\ UNCHANGED <<awRun, dest, payloads>>

\* AsyncWriterBuffer.run: the write to the destination fails; the error is
\* queued on writeErr when nothing is queued there, and the loop goes on
\* with the same bytes
AsyncRunWriteFails ==
    /\ aw.kind = "async"
    /\ awRun.pc = "dstWrite"
    /\ dest.broken
    /\ aw' = IF aw.writeErr = <<>> THEN [aw EXCEPT !.writeErr = <<"fail">>] ELSE aw
    /\ UNCHANGED <<awCaller, awRun, dest, payloads>>

\* AsyncWriterChannel.run: the write to the destination fails; the error is
\* queued on writeErr and run() returns, to its deferred send on writeEnd
ChanRunWriteFails ==
    /\ aw.kind = "chan"
    /\ awRun.pc = "dstWrite"
    /\ dest.broken
    /\ aw' = [aw EXCEPT !.writeErr = <<"fail">>]
    /\ awRun' = At("writeEnd")
    /\ UNCHANGED <<awCaller, dest, payloads>>

NextBufFail ==
    \/ NextBuf
    \/ DestBreaks /\ OutsideBufUnchanged
    \/ BufferedWriteFails /\ OutsideBufUnchanged
    \/ BufferedCloseFails /\ OutsideBufUnchanged
    \/ AsyncRunWriteFails /\ OutsideBufUnchanged
    \/ ChanRunWriteFails /\ OutsideBufUnchanged

\* the decorators over a destination that can break, both goroutines running
\* whenever they can
SpecBufFail ==
    /\ InitBuf /\ [][NextBufFail]_vars
    /\ WF_vars(BufCallerSteps)
    /\ WF_vars((BufferedWriteFails \/ BufferedCloseFails) /\ OutsideBufUnchanged)
    /\ WF_vars(BufRunSteps)
    /\ WF_vars((AsyncRunWriteFails \/ ChanRunWriteFails) /\ OutsideBufUnchanged)

\* C35: over a destination that fails a write, every Write and every Close
\* the caller is in eventually returns: run() does not go on retrying the
\* failed write, and leaves no call waiting for it
C35_CallsReturnOverBrokenDestination ==
    (InCall /\ dest.broken) ~> ~InCall

\* C35, for the decorator that makes no goroutine
C35_BufferedCallsReturn ==
    (aw.kind = "simple" /\ InCall /\ dest.broken) ~> ~InCall

\* a write of run() to the destination has failed with the caller inside a
\* call
C35_Witness == InCall /\ dest.broken /\ aw.kind \in {"async", "chan"} /\ aw.writeErr # <<>>

\* C36: when Close has returned without an error, no failure of a write to
\* the destination is left unreported: the error the decorator keeps for
\* the caller has been returned by a Write
C36_FailureIsReported ==
    awCaller.pc = "closed" => aw.writeErr = <<>>

\* C36, for BufferedWriteCloser: once a write to the destination has failed,
\* every later Write and Close returns an error
C36_BufferedFailureIsReported ==
    [][(aw.kind = "simple" /\ aw.writeErr # <<>> /\ InCall /\ ~InCall')
          => awCaller'.err # "nil" /\ awCaller'.pc = "idle"]_vars

\* a write to the destination has failed and no call has returned the error
C36_Witness == awCaller.pc = "idle" /\ aw.writeErr # <<>> /\ aw.kind = "chan"

(* C37: the shared buffer of AsyncWriterBuffer stays within its size *)

\* C37: at every moment the shared buffer of an AsyncWriterBuffer holds at
\* most bufferMaxSize bytes, whatever the sizes of the payloads; a Write that
\* waits for room has fed in a part of its data only
C37_BufferStaysWithinMax ==
    aw.kind = "async" =>
        /\ Len(aw.buffer) <= aw.maxSize
        /\ awCaller.pc \in {"waitRead", "loop"} =>
              awCaller.written < Len(awCaller.data)

\* a Write of more bytes than the buffer holds has filled the buffer and
\* waits for run() to read it
C37_Witness ==
    /\ aw.kind = "async"
    /\ awCaller.pc = "waitRead"
    /\ Len(awCaller.data) > aw.maxSize
    /\ awCaller.written > 0
    /\ Len(aw.buffer) = aw.maxSize

(* C38: the position a Seek on a read handle moves to *)

\* io.Seeker: the position a Seek moves to, from the current position and
\* the size of the content
SeekerPosition(offset, whence, current, size) ==
    IF whence = "SeekStart" THEN offset
    ELSE IF whence = "SeekCurrent" THEN current + offset
    ELSE size + offset

\* the position the next Read of the handle starts from: where its download
\* stream started, advanced by the bytes read from it
CurrentPosition == hist.seekAt + Len(hist.readBack)

\* the handle has a download stream and no call is under way on it
ReadyToSeek ==
    /\ caller.pc = "idle"
    /\ File.open
    /\ File.streamWrite = "nil"
    /\ File.streamRead # "nil"

\* seekRead would compute the position of io.Seeker for this Seek
SeekFollowsSeeker(offset, whence) ==
    startByte(File, Len(files[File.id].content), offset, whence)
      = SeekerPosition(offset, whence, CurrentPosition, Len(files[File.id].content))

\* a Seek on a handle with a download stream returns the position seekRead
\* computed, with ErrInvalidSeek when it is negative
SeekReturnsStartByte ==
    (ReadyToSeek /\ hist'.nbSeeks = hist.nbSeeks + 1)
       => /\ hist'.seekAt < 0 =>
               ret' = Returned("Seek", "read", hist'.seekAt, "InvalidSeek")
          /\ hist'.seekAt >= 0 => caller'.pc = "Seek"

\* C38: on a read handle, Seek(offset, whence) moves to offset for SeekStart,
\* to the current position plus offset for SeekCurrent and to the size plus
\* offset for SeekEnd, the current position being advanced by every Read and
\* reset by every successful Seek; a negative position is ErrInvalidSeek
C38_SeekFollowsSeeker ==
    /\ [](ReadyToSeek => \A offset \in SeekOffsets, whence \in Whences :
                            SeekFollowsSeeker(offset, whence))
    /\ [][SeekReturnsStartByte]_vars

\* the same for SeekStart, for SeekEnd with offset 0, and for SeekCurrent on
\* a handle no Seek was made on
C38_SeekFollowsSeekerFromStart ==
    /\ [](ReadyToSeek => \A offset \in SeekOffsets, whence \in Whences :
                            (\/ whence = "SeekStart"
                             \/ whence = "SeekEnd" /\ offset = 0
                             \/ whence = "SeekCurrent" /\ hist.nbSeeks = 0)
                               => SeekFollowsSeeker(offset, whence))
    /\ [][SeekReturnsStartByte]_vars

\* a Seek relative to the current position was made after an earlier Seek
\* had moved the handle
C38_Witness ==
    /\ caller.pc = "Seek"
    /\ Head(caller.p) = "SeekCurrent"
    /\ hist.nbSeeks = 2
    /\ File.streamOffset # hist.seekAt

(* C39: calls on a handle that has no stream *)

\* the handle has neither an upload nor a download stream: it was closed, or
\* its last Seek failed
NoOpenStream == File.open /\ File.streamWrite = "nil" /\ File.streamRead = "nil"

\* C39: no call on a handle returns by a panic: Read, Write, Seek and Close
\* on a handle that has no open stream return a result or an error value
C39_NoCallPanics == caller.pc # "panic" /\ ret.err # "panic"

\* Seek and Close on a handle that has no open stream return ErrFileClosed
\* and nil
C39_SeekAndCloseReturn ==
    [][(/\ caller.pc = "idle"
        /\ NoOpenStream
        /\ ret' # ret
        /\ ret'.op \in {"Seek", "Close"})
          => /\ caller'.pc = "idle"
             /\ ret'.err = (IF ret'.op = "Seek" THEN "FileClosed" ELSE "nil")]_vars

\* Seek has returned ErrFileClosed on a handle that has no open stream
C39_Witness == NoOpenStream /\ ret.op = "Seek" /\ ret.err = "FileClosed"

(* C40: successive Readdir calls on one directory handle *)

\* how many Readdir calls are made in a row on one handle
MaxReaddirs == 4

RECURSIVE ReaddirCalls(_, _, _, _, _, _, _)

\* the results of k successive File.Readdir(count) calls on one handle, each
\* starting from the dirListToken the one before left in the handle
ReaddirCalls(F, fi, dirPath, dirListToken, count, serverMax, k) ==
    IF k = 0
    THEN <<>>
    ELSE <<listDirectory(F, fi, dirPath, dirListToken, count, serverMax)>>
         \o ReaddirCalls(F, fi, dirPath,
                         listDirectory(F, fi, dirPath, dirListToken, count,
                                       serverMax).dirListToken,
                         count, serverMax, k - 1)

RECURSIVE UntilLastPage(_)

\* the calls up to the one that reached the end of the listing
UntilLastPage(calls) ==
    IF calls = <<>> THEN <<>>
    ELSE IF Head(calls).dirListToken = 0 THEN <<Head(calls)>>
    ELSE <<Head(calls)>> \o UntilLastPage(Tail(calls))

\* the nodes each call returned
Batches(calls) ==
    [i \in 1..Len(calls) |->
        [j \in 1..Len(calls[i].files) |-> calls[i].files[j].id]]

\* the calls return batches of at most count children that, put end to end,
\* are the children of the directory in the order of the listing, each once
EnumeratesOnce(F, id, count, calls) ==
    /\ \A i \in 1..Len(calls) :
          calls[i].err = "nil" /\ Len(calls[i].files) <= count
    /\ Concat(Batches(calls)) = OrderByName(F, ChildrenOf(F, id))

\* C40: successive Readdir(n) calls with n > 0 on one directory handle return
\* consecutive, non-overlapping batches of at most n children that together
\* enumerate each direct child exactly once, and the calls made after the
\* last child was returned return nothing
C40_ReaddirEnumeratesOnce ==
    CacheCoherent =>
        \A p \in PathInputs \ {<<>>} :
            (TrueStat(Cur, p).err = "nil" /\ TrueStat(Cur, p).file.isDir)
               => \A count \in Counts : \A serverMax \in ServerPageSizes :
                     count > 0 =>
                        EnumeratesOnce(files, OpenFileRes(Cur, p, {}).file.id, count,
                            ReaddirCalls(files, OpenFileRes(Cur, p, {}).file,
                                         HandlePath(files, rootNode, p), 0,
                                         count, serverMax, MaxReaddirs))

\* the same for the calls up to the one that reaches the end of the listing
C40_ReaddirEnumeratesOnceUpToTheEnd ==
    CacheCoherent =>
        \A p \in PathInputs \ {<<>>} :
            (TrueStat(Cur, p).err = "nil" /\ TrueStat(Cur, p).file.isDir)
               => \A count \in Counts : \A serverMax \in ServerPageSizes :
                     count > 0 =>
                        EnumeratesOnce(files, OpenFileRes(Cur, p, {}).file.id, count,
                            UntilLastPage(
                              ReaddirCalls(files, OpenFileRes(Cur, p, {}).file,
                                           HandlePath(files, rootNode, p), 0,
                                           count, serverMax, MaxReaddirs)))

\* a directory with two children, which Readdir(1) lists in two calls
C40_Witness ==
    /\ CacheCoherent
    /\ \E p \in PathInputs \ {<<>>} :
          /\ TrueStat(Cur, p).err = "nil" /\ TrueStat(Cur, p).file.isDir
          /\ Cardinality(ChildrenOf(files, TrueStat(Cur, p).file.id)) = 2

====
